---- MODULE Spec2Model ----
(***************************************************************************)
(* A model of the dfdx tensor core: tensors with shape, strides, identity  *)
(* and a physical buffer; the gradient tape threaded through operations;   *)
(* the reduction (sum / max / min), element-wise maximum, 2-D pooling,     *)
(* stack, broadcast, permute and Residual operations with their backward   *)
(* closures; backward's replay; the allocation interface of the device     *)
(* (constructors, copy-on-write copies, array conversion); and the         *)
(* parameter count of the module visitor.                                  *)
(***************************************************************************)
EXTENDS Integers, Sequences, FiniteSets, TLC

VARIABLES
    nextId,   \* the counter behind unique_id()
    cur,      \* the tensor handle that owns the tape (NoTensor once consumed)
    tape,     \* OwnedTape.operations: backward closures in append order
    grads,    \* OwnedTape.gradients: tensor id -> gradient buffer
    phase,    \* "forward" | "done" | "failed" | "panicked"
    applied,  \* the kinds of the operations that returned Ok, in call order
    ran,      \* the closures backward has executed, in execution order
    leaves,   \* the tensors the user built (untaped handles kept for g.get;
              \* the handles held, under the allocation interface)
    err,      \* the error a failed try_* returned ("" when none)
    ret       \* the last call outside the tape-recording operations: its
              \* arguments and what it returned (NoCall before any)

vars == <<nextId, cur, tape, grads, phase, applied, ran, leaves, err, ret>>

----------------------------------------------------------------------------
(* Bounds of the model *)

\* element values are drawn from -MaxVal .. MaxVal (and the two zeros)
MaxVal == 1
\* the longest chain of tape-recording operations before backward
MaxOps == 2

----------------------------------------------------------------------------
(* Element type E: an IEEE float kept as sign, and an exact magnitude n/d  *)
(* in lowest terms, so that -0 and +0 are different values that compare    *)
(* equal, as f32/f64 do.                                                   *)

RECURSIVE Gcd(_, _)
Gcd(a, b) == IF b = 0 THEN a ELSE Gcd(b, a % b)

Flt(s, n, d) ==
    LET g == Gcd(n, d) IN [s |-> s, n |-> n \div g, d |-> d \div g]

PosZero == [s |-> 0, n |-> 0, d |-> 1]
NegZero == [s |-> 1, n |-> 0, d |-> 1]
FOne == [s |-> 0, n |-> 1, d |-> 1]

FromInt(i) == IF i < 0 THEN Flt(1, 0 - i, 1) ELSE Flt(0, i, 1)
Frac(a, b) == IF a < 0 THEN Flt(1, 0 - a, b) ELSE Flt(0, a, b)

SNum(a) == IF a.s = 1 THEN 0 - a.n ELSE a.n

\* a + b: exact; (-0) + (-0) = -0, every other zero result is +0
FAdd(a, b) ==
    IF a.n = 0 /\ b.n = 0
    THEN (IF a.s = 1 /\ b.s = 1 THEN NegZero ELSE PosZero)
    ELSE LET num == SNum(a) * b.d + SNum(b) * a.d
             den == a.d * b.d
         IN  IF num < 0 THEN Flt(1, 0 - num, den) ELSE Flt(0, num, den)

\* a * b: the sign is the xor of the signs, also for zeros
FMul(a, b) == Flt((a.s + b.s) % 2, a.n * b.n, a.d * b.d)

\* a == b of the float type: the two zeros are equal
FEq(a, b) == (a.n = 0 /\ b.n = 0) \/ a = b

\* a < b of the float type
FLt(a, b) == SNum(a) * b.d < SNum(b) * a.d

\* the ordering that puts -0 strictly below +0
TotalLt(a, b) == FLt(a, b) \/ (a.n = 0 /\ b.n = 0 /\ a.s = 1 /\ b.s = 0)

FMax(a, b) == IF TotalLt(a, b) THEN b ELSE a
FMin(a, b) == IF TotalLt(b, a) THEN b ELSE a

----------------------------------------------------------------------------
(* Shapes, strides and indexing *)

RECURSIVE Prod(_)
Prod(s) == IF s = <<>> THEN 1 ELSE Head(s) * Prod(Tail(s))

RECURSIVE MaxExtent(_)
MaxExtent(s) ==
    IF s = <<>> THEN 0
    ELSE LET m == MaxExtent(Tail(s)) IN IF Head(s) > m THEN Head(s) ELSE m

\* Shape::num_elements
NumElements(shape) == Prod(shape)

\* Shape::strides: the row-major strides of a contiguous tensor
ContigStrides(shape) ==
    [d \in 1..Len(shape) |-> Prod(SubSeq(shape, d + 1, Len(shape)))]

\* the logical index of the lin-th element (0-based) in row-major order
Unravel(lin, shape) ==
    LET st == ContigStrides(shape)
    IN  [d \in 1..Len(shape) |-> (lin \div st[d]) % shape[d]]

RECURSIVE Dot(_, _)
Dot(a, b) == IF a = <<>> THEN 0 ELSE Head(a) * Head(b) + Dot(Tail(a), Tail(b))

\* the 0-based physical offset a logical index addresses under the strides
Offset(idx, strides) == Dot(idx, strides)

\* the 0-based position of a logical index in a contiguous tensor
Ravel(idx, shape) == Dot(idx, ContigStrides(shape))

\* the element a tensor holds at a logical index
At(t, idx) == t.data[Offset(idx, t.strides) + 1]

\* the sequence with the positions in Ax removed (a shape or an index)
RECURSIVE DropFrom(_, _, _)
DropFrom(s, Ax, d) ==
    IF d > Len(s) THEN <<>>
    ELSE (IF d \in Ax THEN <<>> ELSE <<s[d]>>) \o DropFrom(s, Ax, d + 1)

\* ReduceShapeTo: Dst is Src with the axes Ax removed
Reduced(s, Ax) == DropFrom(s, Ax, 1)

Zeros(n) == [i \in 1..n |-> PosZero]
Ones(n) == [i \in 1..n |-> FOne]

NoOp ==
    [kernel |-> 0, stride |-> 0, padding |-> 0, batch |-> 0, chan |-> 0,
     h_in |-> 0, h_out |-> 0, w_in |-> 0, w_out |-> 0]

\* no call of a value-returning function yet
NoCall == [fn |-> ""]

NoTensor ==
    [id |-> 0, shape |-> <<>>, strides |-> <<>>, data |-> <<>>, buf |-> 0]

\* a tensor handle: identity, shape, strides and the physical buffer; buf
\* names the allocation behind the Arc, here a freshly made one
Tensor(id, shape, strides, data) ==
    [id |-> id, shape |-> shape, strides |-> strides, data |-> data,
     buf |-> id]

\* a tensor handle whose data is a clone of src's Arc: the same allocation
View(id, shape, strides, src) ==
    [id |-> id, shape |-> shape, strides |-> strides, data |-> src.data,
     buf |-> src.buf]

\* a contiguous tensor, as the constructors build it
Dense(id, shape, data) == Tensor(id, shape, ContigStrides(shape), data)

----------------------------------------------------------------------------
(* Reduction kernels: SumKernel, MaxReduceKernel, MinReduceKernel          *)

Positions(shape) == [i \in 1..Prod(shape) |-> i - 1]

\* the output slot (0-based) the lin-th logical input position reduces into
SlotOf(lin, shape, Ax) ==
    Ravel(Reduced(Unravel(lin, shape), Ax), Reduced(shape, Ax))

\* the values of the slice that reduces into slot j, in logical order
SliceVals(inp, Ax, j) ==
    LET sel == SelectSeq(Positions(inp.shape),
                         LAMBDA i : SlotOf(i, inp.shape, Ax) = j)
    IN  [k \in 1..Len(sel) |-> At(inp, Unravel(sel[k], inp.shape))]

RECURSIVE SumVals(_, _)
SumVals(vals, acc) ==
    IF vals = <<>> THEN acc ELSE SumVals(Tail(vals), FAdd(acc, Head(vals)))

RECURSIVE MaxVals(_, _)
MaxVals(vals, acc) ==
    IF vals = <<>> THEN acc ELSE MaxVals(Tail(vals), FMax(acc, Head(vals)))

RECURSIVE MinVals(_, _)
MinVals(vals, acc) ==
    IF vals = <<>> THEN acc ELSE MinVals(Tail(vals), FMin(acc, Head(vals)))

\* SumKernel::forward: a fresh contiguous tensor of shape dst
SumKernel_forward(id, dst, inp, Ax) ==
    Tensor(id, dst, ContigStrides(dst),
           [j \in 1..Prod(dst) |-> SumVals(SliceVals(inp, Ax, j - 1), PosZero)])

\* MaxReduceKernel::forward
MaxReduceKernel_forward(id, dst, inp, Ax) ==
    Tensor(id, dst, ContigStrides(dst),
           [j \in 1..Prod(dst) |->
               LET v == SliceVals(inp, Ax, j - 1) IN MaxVals(Tail(v), Head(v))])

\* MinReduceKernel::forward
MinReduceKernel_forward(id, dst, inp, Ax) ==
    Tensor(id, dst, ContigStrides(dst),
           [j \in 1..Prod(dst) |->
               LET v == SliceVals(inp, Ax, j - 1) IN MinVals(Tail(v), Head(v))])

\* SumKernel::backward: grad_inp[p] += grad_out[slot(p)] over the logical
\* positions of inp, from position i on
RECURSIVE SumKernel_backward(_, _, _, _, _, _)
SumKernel_backward(inp, Ax, grad_inp, out, grad_out, i) ==
    IF i >= Prod(inp.shape) THEN grad_inp
    ELSE LET p == Offset(Unravel(i, inp.shape), inp.strides) + 1
             j == SlotOf(i, inp.shape, Ax) + 1
         IN  SumKernel_backward(inp, Ax,
                 [grad_inp EXCEPT ![p] = FAdd(@, grad_out[j])],
                 out, grad_out, i + 1)

\* MaxReduceKernel::backward and MinReduceKernel::backward:
\* grad_inp[p] += (inp[p] == out[slot(p)] ? 1 : 0) * grad_out[slot(p)]
RECURSIVE ExtremumKernel_backward(_, _, _, _, _, _)
ExtremumKernel_backward(inp, Ax, grad_inp, out, grad_out, i) ==
    IF i >= Prod(inp.shape) THEN grad_inp
    ELSE LET idx == Unravel(i, inp.shape)
             p == Offset(idx, inp.strides) + 1
             j == SlotOf(i, inp.shape, Ax) + 1
             d == IF FEq(out.data[j], At(inp, idx)) THEN FOne ELSE PosZero
         IN  ExtremumKernel_backward(inp, Ax,
                 [grad_inp EXCEPT ![p] = FAdd(@, FMul(d, grad_out[j]))],
                 out, grad_out, i + 1)

----------------------------------------------------------------------------
(* 2-D pooling: Pool2DOp and the AvgPool2D / MaxPool2D / MinPool2D kernels *)

\* usize: an unsigned word that wraps around; its arithmetic is kept at a
\* narrower width than the 64 bits of the targets
UsizeBits == 16
UsizeRange == 2 ^ UsizeBits

\* wrapping_sub and wrapping_add, what - and + are without overflow checks
usize_sub(a, b) == (a - b) % UsizeRange
usize_add(a, b) == (a + b) % UsizeRange

\* Pool2DOp::new leaving the padding out of the extents
Pool2DOp_new_unpadded(k, s, p, dims) ==
    [kernel |-> k, stride |-> s, padding |-> p,
     batch |-> dims[1], chan |-> dims[2],
     h_in |-> dims[3], h_out |-> (dims[3] - k) \div s + 1,
     w_in |-> dims[4], w_out |-> (dims[4] - k) \div s + 1]

\* Pool2DOp::new: usize arithmetic as a build without overflow checks
\* evaluates it
Pool2DOp_new(k, s, p, dims) ==
    [kernel |-> k, stride |-> s, padding |-> p,
     batch |-> dims[1], chan |-> dims[2],
     h_in |-> dims[3],
     h_out |-> usize_add(usize_sub(usize_add(dims[3], 2 * p), k) \div s, 1),
     w_in |-> dims[4],
     w_out |-> usize_add(usize_sub(usize_add(dims[4], 2 * p), k) \div s, 1)]

\* whether a subtraction of Pool2DOp::new goes below zero, which a build
\* with overflow checks answers with a panic
Pool2DOp_new_overflows(k, s, p, dims) ==
    dims[3] + 2 * p < k \/ dims[4] + 2 * p < k

\* ConvAlgebra<K, S, P>::Convolved: the extent in the output's type
Convolved(m, k, s, p) == (m + 2 * p - k) \div s + 1

\* the index of (b, c, y, x) in a (C, H, W) or a (B, C, H, W) tensor
PoolIdx(rank, b, c, y, x) == IF rank = 3 THEN <<c, y, x>> ELSE <<b, c, y, x>>

\* the output positions the kernel loops visit: b < batch, c < chan,
\* oh < h_out, ow < w_out, in loop order
PoolLoop(op) ==
    [o \in 1..(op.batch * op.chan * op.h_out * op.w_out) |->
        <<(o - 1) \div (op.w_out * op.h_out * op.chan),
          ((o - 1) \div (op.w_out * op.h_out)) % op.chan,
          ((o - 1) \div op.w_out) % op.h_out,
          (o - 1) % op.w_out>>]

\* the input indices under the window of output position (b, c, oh, ow) that
\* lie inside the input, in the order the kernel visits them
Window(op, rank, pos) ==
    LET k2 == op.kernel * op.kernel
        ys == [n \in 1..k2 |->
                  pos[3] * op.stride + ((n - 1) \div op.kernel) - op.padding]
        xs == [n \in 1..k2 |->
                  pos[4] * op.stride + ((n - 1) % op.kernel) - op.padding]
        inside == SelectSeq([n \in 1..k2 |-> n],
                     LAMBDA n : /\ ys[n] >= 0 /\ ys[n] < op.h_in
                                /\ xs[n] >= 0 /\ xs[n] < op.w_in)
    IN  [n \in 1..Len(inside) |->
            PoolIdx(rank, pos[1], pos[2], ys[inside[n]], xs[inside[n]])]

WindowVals(op, inp, pos) ==
    LET w == Window(op, Len(inp.shape), pos)
    IN  [n \in 1..Len(w) |-> At(inp, w[n])]

\* the physical slot (1-based) of output position (b, c, oh, ow)
OutSlot(out, pos) ==
    Offset(PoolIdx(Len(out.shape), pos[1], pos[2], pos[3], pos[4]),
           out.strides) + 1

\* 1 / K^2
InvK2(op) == Frac(1, op.kernel * op.kernel)

PooledValue(kind, op, inp, pos) ==
    LET v == WindowVals(op, inp, pos)
    IN  CASE kind = "avg_pool" -> FMul(SumVals(v, PosZero), InvK2(op))
          [] kind = "max_pool" -> MaxVals(Tail(v), Head(v))
          [] kind = "min_pool" -> MinVals(Tail(v), Head(v))

\* AvgPool2DKernel::forward, MaxPool2DKernel::forward, MinPool2DKernel::forward:
\* every visited position of the zeroed output is overwritten
RECURSIVE Pool2DKernel_forward(_, _, _, _, _)
Pool2DKernel_forward(kind, op, inp, out, o) ==
    IF o > Len(PoolLoop(op)) THEN out
    ELSE LET pos == PoolLoop(op)[o]
         IN  Pool2DKernel_forward(kind, op, inp,
                 [out EXCEPT !.data[OutSlot(out, pos)] =
                     PooledValue(kind, op, inp, pos)],
                 o + 1)

\* adding g into grad_inp at every index of w from the n-th on; for max and
\* min only where the input equals the pooled value vo
RECURSIVE PoolWindow_backward(_, _, _, _, _, _, _)
PoolWindow_backward(kind, inp, grad_inp, w, n, vo, g) ==
    IF n > Len(w) THEN grad_inp
    ELSE LET p == Offset(w[n], inp.strides) + 1
             hit == kind = "avg_pool" \/ FEq(At(inp, w[n]), vo)
         IN  PoolWindow_backward(kind, inp,
                 IF hit THEN [grad_inp EXCEPT ![p] = FAdd(@, g)] ELSE grad_inp,
                 w, n + 1, vo, g)

\* AvgPool2DKernel::backward, MaxPool2DKernel::backward,
\* MinPool2DKernel::backward, from the o-th visited output position on
RECURSIVE Pool2DKernel_backward(_, _, _, _, _, _, _)
Pool2DKernel_backward(kind, op, inp, grad_inp, out, grad_out, o) ==
    IF o > Len(PoolLoop(op)) THEN grad_inp
    ELSE LET pos == PoolLoop(op)[o]
             slot == OutSlot(out, pos)
             g == IF kind = "avg_pool" THEN FMul(grad_out[slot], InvK2(op))
                                       ELSE grad_out[slot]
         IN  Pool2DKernel_backward(kind, op, inp,
                 PoolWindow_backward(kind, inp, grad_inp,
                     Window(op, Len(inp.shape), pos), 1, out.data[slot], g),
                 out, grad_out, o + 1)

----------------------------------------------------------------------------
(* Element-wise maximum and minimum: BinaryKernel<MaximumKernelOp> and    *)
(* BinaryKernel<MinimumKernelOp>                                          *)

FHalf == Frac(1, 2)

\* x.max(y): the larger operand; of two equal operands either one, which
\* the two zeros tell apart
Larger(x, y) ==
    IF FLt(x, y) THEN {y} ELSE IF FLt(y, x) THEN {x} ELSE {x, y}

\* x.min(y)
Smaller(x, y) ==
    IF FLt(x, y) THEN {x} ELSE IF FLt(y, x) THEN {y} ELSE {x, y}

\* BinaryDerivative::f of the two kernel ops
BinaryOp_f(bop, x, y) ==
    CASE bop = "MaximumKernelOp" -> Larger(x, y)
      [] bop = "MinimumKernelOp" -> Smaller(x, y)
      [] bop = "BinaryAddKernelOp" -> {FAdd(x, y)}

\* the buffers the forward kernel can produce for the first n positions
RECURSIVE BinaryKernel_forward(_, _, _, _)
BinaryKernel_forward(bop, lhs, rhs, n) ==
    IF n = 0 THEN {<<>>}
    ELSE LET idx == Unravel(n - 1, lhs.shape)
         IN  {Append(d, v) : d \in BinaryKernel_forward(bop, lhs, rhs, n - 1),
                             v \in BinaryOp_f(bop, At(lhs, idx), At(rhs, idx))}

\* MaximumKernelOp::dfdx
Maximum_dfdx(x, y) ==
    IF FLt(y, x) THEN FOne ELSE IF FLt(x, y) THEN PosZero ELSE FHalf

\* MaximumKernelOp::dfdy
Maximum_dfdy(x, y) ==
    IF FLt(x, y) THEN FOne ELSE IF FLt(y, x) THEN PosZero ELSE FHalf

\* BinaryDerivative::dfdx and dfdy of the two kernel ops
BinaryOp_dfdx(bop, x, y) ==
    CASE bop = "MaximumKernelOp" -> Maximum_dfdx(x, y)
      [] bop = "MinimumKernelOp" -> Maximum_dfdy(x, y)
      [] bop = "BinaryAddKernelOp" -> FOne

BinaryOp_dfdy(bop, x, y) ==
    CASE bop = "MaximumKernelOp" -> Maximum_dfdy(x, y)
      [] bop = "MinimumKernelOp" -> Maximum_dfdx(x, y)
      [] bop = "BinaryAddKernelOp" -> FOne

\* BinaryKernel::backward for the lhs: grad_lhs[p] += dfdx * grad_out[i]
RECURSIVE BinaryKernel_backward_lhs(_, _, _, _, _, _)
BinaryKernel_backward_lhs(bop, lhs, rhs, grad_lhs, grad_out, i) ==
    IF i >= Prod(lhs.shape) THEN grad_lhs
    ELSE LET idx == Unravel(i, lhs.shape)
             p == Offset(idx, lhs.strides) + 1
             d == BinaryOp_dfdx(bop, At(lhs, idx), At(rhs, idx))
         IN  BinaryKernel_backward_lhs(bop, lhs, rhs,
                 [grad_lhs EXCEPT ![p] = FAdd(@, FMul(d, grad_out[i + 1]))],
                 grad_out, i + 1)

\* BinaryKernel::backward for the rhs: grad_rhs[p] += dfdy * grad_out[i]
RECURSIVE BinaryKernel_backward_rhs(_, _, _, _, _, _)
BinaryKernel_backward_rhs(bop, lhs, rhs, grad_rhs, grad_out, i) ==
    IF i >= Prod(rhs.shape) THEN grad_rhs
    ELSE LET idx == Unravel(i, rhs.shape)
             p == Offset(idx, rhs.strides) + 1
             d == BinaryOp_dfdy(bop, At(lhs, idx), At(rhs, idx))
         IN  BinaryKernel_backward_rhs(bop, lhs, rhs,
                 [grad_rhs EXCEPT ![p] = FAdd(@, FMul(d, grad_out[i + 1]))],
                 grad_out, i + 1)

----------------------------------------------------------------------------
(* stack: StackKernel for Cpu *)

RECURSIVE Concat(_)
Concat(seqs) == IF seqs = <<>> THEN <<>> ELSE Head(seqs) \o Concat(Tail(seqs))

\* the strides check of StackKernel::forward
SameStrides(inp) == \A i \in 1..Len(inp) : inp[i].strides = inp[1].strides

\* StackKernel::forward copying the first item's buffer for every item
StackKernel_forward_first_item(id, inp) ==
    Tensor(id, <<Len(inp)>> \o inp[1].shape,
           <<Len(inp[1].data)>> \o inp[1].strides,
           Concat([i \in 1..Len(inp) |-> inp[1].data]))

\* StackKernel::forward keeping the leading stride of shape.strides(), the
\* logical element count of an item
StackKernel_forward_logical_stride(id, inp) ==
    Tensor(id, <<Len(inp)>> \o inp[1].shape,
           <<NumElements(inp[1].shape)>> \o inp[1].strides,
           Concat([i \in 1..Len(inp) |-> inp[i].data]))

\* StackKernel::forward
StackKernel_forward(id, inp) ==
    Tensor(id, <<Len(inp)>> \o inp[1].shape,
           <<Len(inp[1].data)>> \o inp[1].strides,
           Concat([i \in 1..Len(inp) |-> inp[i].data]))

\* StackKernel::backward that never advances offset past the first slab
RECURSIVE StackKernel_backward_fixed_offset(_, _, _, _, _)
StackKernel_backward_fixed_offset(inp, g, grad_out, k, offset) ==
    IF k > Len(inp) THEN g
    ELSE LET id == inp[k].id
             n == Len(g[id])
         IN  StackKernel_backward_fixed_offset(inp,
                 [g EXCEPT ![id] = [p \in 1..n |-> FAdd(g[id][p], grad_out[offset + p])]],
                 grad_out, k + 1, offset)

\* StackKernel::backward: every element of every item's buffer, in order,
\* takes the next element of grad_out
RECURSIVE StackKernel_backward(_, _, _, _, _)
StackKernel_backward(inp, g, grad_out, k, offset) ==
    IF k > Len(inp) THEN g
    ELSE LET id == inp[k].id
             n == Len(g[id])
         IN  StackKernel_backward(inp,
                 [g EXCEPT ![id] = [p \in 1..n |-> FAdd(g[id][p], grad_out[offset + p])]],
                 grad_out, k + 1, offset + n)

----------------------------------------------------------------------------
(* The tape and its gradient map *)

NoGrads == <<>>

\* Tape::try_alloc_grad: a zeroed buffer as long as the tensor's physical
\* buffer, unless the identity already has one
try_alloc_grad(g, t) ==
    IF t.id \in DOMAIN g THEN g ELSE g @@ (t.id :> Zeros(Len(t.data)))

\* a backward closure: what the move-closure captured
Closure(kind, inps, out, Ax, op) ==
    [kind |-> kind, inps |-> inps, out |-> out, axes |-> Ax, op |-> op,
     bop |-> ""]

\* the closure of a binary op, which also captured the kernel op
BinaryClosure(kind, bop, lhs, rhs, out) ==
    [kind |-> kind, inps |-> <<lhs, rhs>>, out |-> out, axes |-> {},
     op |-> NoOp, bop |-> bop]

\* Tape::add_backward_op
add_backward_op(ops, c) == Append(ops, c)

\* a tape: its operations and its gradient map
Tape(ops, g) == [ops |-> ops, grads |-> g]

\* Default::default() of a tape
NoTape == Tape(<<>>, NoGrads)

\* Merge::merge of two tapes: the right tape's operations go after the left
\* tape's, and its gradient buffers into the left map
merge(l, r) == Tape(l.ops \o r.ops, r.grads @@ l.grads)

----------------------------------------------------------------------------
(* The backward closures the reductions put on the tape *)

\* MaxReduceKernel::backward
MaxReduceKernel_backward(inp, Ax, grad_inp, out, grad_out) ==
    ExtremumKernel_backward(inp, Ax, grad_inp, out, grad_out, 0)

\* MinReduceKernel::backward
MinReduceKernel_backward(inp, Ax, grad_inp, out, grad_out) ==
    ExtremumKernel_backward(inp, Ax, grad_inp, out, grad_out, 0)

\* the closure of try_sum: mut_and_ref(&inp, &phantom_out), then the kernel
sum_backward_op(c, g) ==
    LET inp == c.inps[1]
    IN  [g EXCEPT ![inp.id] =
            SumKernel_backward(inp, c.axes, g[inp.id], c.out, g[c.out.id], 0)]

\* the closure of try_max handing the gradients to the sum kernel
max_backward_op_sum_kernel(c, g) ==
    LET inp == c.inps[1]
    IN  [g EXCEPT ![inp.id] =
            SumKernel_backward(inp, c.axes, g[inp.id], c.out, g[c.out.id], 0)]

\* the closure of try_max
max_backward_op(c, g) ==
    LET inp == c.inps[1]
    IN  [g EXCEPT ![inp.id] =
            MaxReduceKernel_backward(inp, c.axes, g[inp.id], c.out, g[c.out.id])]

\* the closure of try_min
min_backward_op(c, g) ==
    LET inp == c.inps[1]
    IN  [g EXCEPT ![inp.id] =
            MinReduceKernel_backward(inp, c.axes, g[inp.id], c.out, g[c.out.id])]

\* the closure of try_pool2d
pool2d_backward_op(c, g) ==
    LET inp == c.inps[1]
    IN  [g EXCEPT ![inp.id] =
            Pool2DKernel_backward(c.kind, c.op, inp, g[inp.id], c.out,
                                  g[c.out.id], 1)]

\* the closure of try_binary_op: muts_and_ref(&lhs, &rhs, &phantom_out)
binary_backward_op(c, g) ==
    LET lhs == c.inps[1]
        rhs == c.inps[2]
        go == g[c.out.id]
        g1 == [g EXCEPT ![lhs.id] =
                  BinaryKernel_backward_lhs(c.bop, lhs, rhs, g[lhs.id], go, 0)]
    IN  [g1 EXCEPT ![rhs.id] =
            BinaryKernel_backward_rhs(c.bop, lhs, rhs, g1[rhs.id], go, 0)]

\* the closure of try_stack: many_and_ref(&tensors, &phantom_out)
stack_backward_op(c, g) ==
    StackKernel_backward(c.inps, g, g[c.out.id], 1, 0)

\* BroadcastKernel::backward: grad_inp[i] += grad_out[i] over the buffer the
\* view shares with its input
BroadcastKernel_backward(grad_inp, grad_out) ==
    [p \in 1..Len(grad_inp) |-> FAdd(grad_inp[p], grad_out[p])]

\* the closure of try_broadcast
broadcast_backward_op(c, g) ==
    LET inp == c.inps[1]
    IN  [g EXCEPT ![inp.id] = BroadcastKernel_backward(g[inp.id], g[c.out.id])]

\* PermuteKernel::backward with the two buffers swapped in the launch: the
\* sum lands in grad_out and grad_inp stays as it was
PermuteKernel_backward_swapped(grad_inp, grad_out) == grad_inp

\* PermuteKernel::backward: the element-wise sum kernel launched over
\* numel = grad_inp.len() elements, grad_inp[i] += grad_out[i]
PermuteKernel_backward(grad_inp, grad_out) ==
    [p \in 1..Len(grad_inp) |-> FAdd(grad_inp[p], grad_out[p])]

\* the closure of try_permute
permute_backward_op(c, g) ==
    LET inp == c.inps[1]
    IN  [g EXCEPT ![inp.id] = PermuteKernel_backward(g[inp.id], g[c.out.id])]

\* running one closure of the tape against the gradient map
Call(c, g) ==
    CASE c.kind = "sum" -> sum_backward_op(c, g)
      [] c.kind = "permute" -> permute_backward_op(c, g)
      [] c.kind = "broadcast" -> broadcast_backward_op(c, g)
      [] c.kind \in {"maximum", "minimum", "add"} -> binary_backward_op(c, g)
      [] c.kind = "stack" -> stack_backward_op(c, g)
      [] c.kind = "max" -> max_backward_op(c, g)
      [] c.kind = "min" -> min_backward_op(c, g)
      [] c.kind \in {"avg_pool", "max_pool", "min_pool"} ->
            pool2d_backward_op(c, g)

\* OwnedTape::execute: drains the operations from the last one to the first
RECURSIVE Execute(_, _, _)
Execute(ops, g, log) ==
    IF ops = <<>> THEN [grads |-> g, log |-> log]
    ELSE LET n == Len(ops)
             g2 == Call(ops[n], g)
         IN  Execute(SubSeq(ops, 1, n - 1), g2,
                     Append(log, [pos |-> n, op |-> ops[n],
                                  before |-> g, after |-> g2]))

----------------------------------------------------------------------------
(* Operations *)

\* a try_* call that returns Err but hands the tensor and its tape back
Failed_keeps_tape(at, ids) ==
    /\ phase' = "failed"
    /\ err' = at
    /\ nextId' = nextId + ids
    /\ UNCHANGED <<cur, tape, grads, applied, ran, leaves, ret>>

\* a try_* call that returns Err: self was moved in, so the tensor and the
\* tape it carried are dropped; the identity the forward kernel stamped on
\* its output stays consumed
Failed(at, ids) ==
    /\ phase' = "failed"
    /\ err' = at
    /\ cur' = NoTensor
    /\ tape' = <<>>
    /\ grads' = NoGrads
    /\ nextId' = nextId + ids
    /\ UNCHANGED <<applied, ran, leaves, ret>>

\* the Ok path shared by the operations: the output takes the tape
Returned(kind, out, ops, g) ==
    /\ cur' = out
    /\ tape' = ops
    /\ grads' = g
    /\ nextId' = out.id + 1
    /\ applied' = Append(applied, [kind |-> kind, out |-> out.id])
    /\ UNCHANGED <<phase, ran, leaves, err, ret>>

ReduceFailures == {"forward", "alloc_inp", "alloc_out"}

CanReduce(Ax) ==
    /\ phase = "forward"
    /\ Len(applied) < MaxOps
    /\ Ax # {}
    /\ Ax \subseteq 1..Len(cur.shape)

\* try_sum bound to the wrong kernel trait (D: MaxReduceKernel<E>)
try_sum_wrong_kernel(Ax) ==
    /\ CanReduce(Ax)
    /\ \/ \E at \in ReduceFailures :
              Failed(at, IF at = "forward" THEN 0 ELSE 1)
       \/ LET dst == Reduced(cur.shape, Ax)
              inp == cur
              out == MaxReduceKernel_forward(nextId, dst, inp, Ax)
              g == try_alloc_grad(try_alloc_grad(grads, inp), out)
          IN  Returned("sum", out,
                  add_backward_op(tape, Closure("sum", <<inp>>, out, Ax, NoOp)), g)

\* SumTo::try_sum
try_sum(Ax) ==
    /\ CanReduce(Ax)
    /\ \/ \E at \in ReduceFailures :
              Failed(at, IF at = "forward" THEN 0 ELSE 1)
       \/ LET dst == Reduced(cur.shape, Ax)
              inp == cur
              out == SumKernel_forward(nextId, dst, inp, Ax)
              g == try_alloc_grad(try_alloc_grad(grads, inp), out)
          IN  Returned("sum", out,
                  add_backward_op(tape, Closure("sum", <<inp>>, out, Ax, NoOp)), g)

\* try_max bound to the wrong kernel trait (D: MinReduceKernel<E>)
try_max_wrong_kernel(Ax) ==
    /\ CanReduce(Ax)
    /\ \/ \E at \in ReduceFailures :
              Failed(at, IF at = "forward" THEN 0 ELSE 1)
       \/ LET dst == Reduced(cur.shape, Ax)
              inp == cur
              out == MinReduceKernel_forward(nextId, dst, inp, Ax)
              g == try_alloc_grad(try_alloc_grad(grads, inp), out)
          IN  Returned("max", out,
                  add_backward_op(tape, Closure("max", <<inp>>, out, Ax, NoOp)), g)

\* MaxTo::try_max
try_max(Ax) ==
    /\ CanReduce(Ax)
    /\ \/ \E at \in ReduceFailures :
              Failed(at, IF at = "forward" THEN 0 ELSE 1)
       \/ LET dst == Reduced(cur.shape, Ax)
              inp == cur
              out == MaxReduceKernel_forward(nextId, dst, inp, Ax)
              g == try_alloc_grad(try_alloc_grad(grads, inp), out)
          IN  Returned("max", out,
                  add_backward_op(tape, Closure("max", <<inp>>, out, Ax, NoOp)), g)

\* try_min returning without tape.add_backward_op
try_min_unrecorded(Ax) ==
    /\ CanReduce(Ax)
    /\ \/ \E at \in ReduceFailures :
              Failed(at, IF at = "forward" THEN 0 ELSE 1)
       \/ LET dst == Reduced(cur.shape, Ax)
              inp == cur
              out == MinReduceKernel_forward(nextId, dst, inp, Ax)
              g == try_alloc_grad(try_alloc_grad(grads, inp), out)
          IN  Returned("min", out, tape, g)

\* MinTo::try_min
try_min(Ax) ==
    /\ CanReduce(Ax)
    /\ \/ \E at \in ReduceFailures :
              Failed(at, IF at = "forward" THEN 0 ELSE 1)
       \/ LET dst == Reduced(cur.shape, Ax)
              inp == cur
              out == MinReduceKernel_forward(nextId, dst, inp, Ax)
              g == try_alloc_grad(try_alloc_grad(grads, inp), out)
          IN  Returned("min", out,
                  add_backward_op(tape, Closure("min", <<inp>>, out, Ax, NoOp)), g)

PoolFailures == {"zeros", "forward", "alloc_inp", "alloc_out"}

\* the instances the const parameters K, S, P allow on the current tensor:
\* a (C, H, W) or (B, C, H, W) tensor, a stride of at least one, and every
\* window holding at least one input element
CanPool(K, S, P) ==
    /\ phase = "forward"
    /\ Len(applied) < MaxOps
    /\ Len(cur.shape) \in {3, 4}
    /\ S >= 1
    /\ P < K
    /\ K <= cur.shape[Len(cur.shape) - 1] + 2 * P
    /\ K <= cur.shape[Len(cur.shape)] + 2 * P

\* try_pool2d that never calls the forward kernel: the output stays zeroed
try_pool2d_no_forward(kind, K, S, P) ==
    /\ CanPool(K, S, P)
    /\ \/ \E at \in PoolFailures :
              Failed(at, IF at = "zeros" THEN 0 ELSE 1)
       \/ LET rank == Len(cur.shape)
              H == cur.shape[rank - 1]
              W == cur.shape[rank]
              chan == cur.shape[rank - 2]
              op == Pool2DOp_new(K, S, P,
                        IF rank = 3 THEN <<1, chan, H, W>>
                                    ELSE <<cur.shape[1], chan, H, W>>)
              inp == cur
              oshape == SubSeq(cur.shape, 1, rank - 2)
                            \o <<Convolved(H, K, S, P), Convolved(W, K, S, P)>>
              out == Dense(nextId, oshape, Zeros(Prod(oshape)))
              g == try_alloc_grad(try_alloc_grad(grads, inp), out)
          IN  Returned(kind, out,
                  add_backward_op(tape, Closure(kind, <<inp>>, out, {}, op)), g)

\* try_pool2d of the pool2d! macro, for (C, H, W) and for (B, C, H, W)
try_pool2d(kind, K, S, P) ==
    /\ CanPool(K, S, P)
    /\ \/ \E at \in PoolFailures :
              Failed(at, IF at = "zeros" THEN 0 ELSE 1)
       \/ LET rank == Len(cur.shape)
              H == cur.shape[rank - 1]
              W == cur.shape[rank]
              chan == cur.shape[rank - 2]
              op == Pool2DOp_new(K, S, P,
                        IF rank = 3 THEN <<1, chan, H, W>>
                                    ELSE <<cur.shape[1], chan, H, W>>)
              inp == cur
              oshape == SubSeq(cur.shape, 1, rank - 2)
                            \o <<Convolved(H, K, S, P), Convolved(W, K, S, P)>>
              zeros == Dense(nextId, oshape, Zeros(Prod(oshape)))
              out == Pool2DKernel_forward(kind, op, inp, zeros, 1)
              g == try_alloc_grad(try_alloc_grad(grads, inp), out)
          IN  Returned(kind, out,
                  add_backward_op(tape, Closure(kind, <<inp>>, out, {}, op)), g)

\* TryAvgPool2D::try_avg_pool2d
try_avg_pool2d(K, S, P) == try_pool2d("avg_pool", K, S, P)

\* TryMaxPool2D::try_max_pool2d
try_max_pool2d(K, S, P) == try_pool2d("max_pool", K, S, P)

\* TryMinPool2D::try_min_pool2d
try_min_pool2d(K, S, P) == try_pool2d("min_pool", K, S, P)

\* BroadcastStridesTo::broadcast_strides: the input's strides on the axes it
\* has, 0 on the new axes Ax of dst
RECURSIVE broadcast_strides(_, _, _, _)
broadcast_strides(strides, dst, Ax, d) ==
    IF d > Len(dst) THEN <<>>
    ELSE IF d \in Ax
         THEN <<0>> \o broadcast_strides(strides, dst, Ax, d + 1)
         ELSE <<Head(strides)>> \o broadcast_strides(Tail(strides), dst, Ax, d + 1)

\* BroadcastKernel::forward: a view of the input's buffer
BroadcastKernel_forward(id, dst, Ax, inp) ==
    View(id, dst, broadcast_strides(inp.strides, dst, Ax, 1), inp)

\* BroadcastTo::try_broadcast to the shape dst whose axes Ax are new
try_broadcast(dst, Ax) ==
    /\ phase = "forward"
    /\ Len(applied) < MaxOps
    /\ Ax \subseteq 1..Len(dst)
    /\ Reduced(dst, Ax) = cur.shape
    /\ \/ \E at \in ReduceFailures :
              Failed(at, IF at = "forward" THEN 0 ELSE 1)
       \/ LET inp == cur
              out == BroadcastKernel_forward(nextId, dst, Ax, inp)
              g == try_alloc_grad(try_alloc_grad(grads, inp), out)
          IN  Returned("broadcast", out,
                  add_backward_op(tape,
                      Closure("broadcast", <<inp>>, out, Ax, NoOp)), g)

\* PermuteShapeTo::permuted and permute_strides: axis i of the result is
\* axis perm[i] of the input
permuted(seq, perm) == [i \in 1..Len(seq) |-> seq[perm[i]]]

\* PermuteKernel::forward keeping the input's strides as they are
PermuteKernel_forward_same_strides(id, inp, perm) ==
    [tensor |-> View(id, permuted(inp.shape, perm), inp.strides, inp),
     tape |-> NoTape]

\* PermuteKernel::forward: the tensor it builds and the tape it gives it
PermuteKernel_forward(id, inp, perm) ==
    [tensor |-> View(id, permuted(inp.shape, perm),
                     permuted(inp.strides, perm), inp),
     tape |-> NoTape]

\* the bijections on the axes of a shape of rank r
Perms(r) ==
    {f \in [1..r -> 1..r] : \A i, j \in 1..r : f[i] = f[j] => i = j}

\* PermuteTo::try_permute
try_permute(perm) ==
    /\ phase = "forward"
    /\ Len(applied) < MaxOps
    /\ perm \in Perms(Len(cur.shape))
    /\ \/ \E at \in ReduceFailures :
              Failed(at, IF at = "forward" THEN 0 ELSE 1)
       \/ LET inp == cur
              out == PermuteKernel_forward(nextId, inp, perm).tensor
              g == try_alloc_grad(try_alloc_grad(grads, inp), out)
          IN  Returned("permute", out,
                  add_backward_op(tape,
                      Closure("permute", <<inp>>, out, {}, NoOp)), g)

\* a panic unwinding out of an operation: the tensors and tapes moved into
\* it are dropped
Panicked(at) ==
    /\ phase' = "panicked"
    /\ err' = at
    /\ cur' = NoTensor
    /\ tape' = <<>>
    /\ grads' = NoGrads
    /\ UNCHANGED <<nextId, applied, ran, leaves, ret>>

\* a function that returns a plain value returned it
Answered(fn, args, value) ==
    /\ ret' = [fn |-> fn, args |-> args, value |-> value]
    /\ UNCHANGED <<nextId, cur, tape, grads, phase, applied, ran, leaves, err>>

\* a call of Pool2DOp::new(k, s, p, dims): with overflow checks a
\* subtraction below zero panics, without them it wraps
Pool2DOp_new_call(k, s, p, dims) ==
    /\ phase = "forward"
    /\ \/ Pool2DOp_new_overflows(k, s, p, dims) /\ Panicked("overflow")
       \/ Answered("Pool2DOp::new", <<k, s, p, dims>>,
                   Pool2DOp_new(k, s, p, dims))

----------------------------------------------------------------------------
(* The module visitor: TensorCollection::iter_tensors walked by a          *)
(* RecursiveWalker, and the Counter of num_trainable_params                *)

\* the deepest nesting of Residual around a layer
MaxDepth == 2

\* a layer: the tensors it visits, each a name, its TensorOptions and the
\* tensor's shape
Layer(fields) == [kind |-> "Layer", fields |-> fields]

\* Residual<F>(pub F)
Residual(F) == [kind |-> "Residual", inner |-> F]

\* a visitor: the Counter's usize and the visit calls it received
Counter(n) == [count |-> n, visits |-> <<>>]

\* Counter::visit adding the element count whatever the options say
Counter_visit_ungated(self, name, opts, t) ==
    [count |-> usize_add(self.count, NumElements(t.shape)),
     visits |-> Append(self.visits, [path |-> name, opts |-> opts, t |-> t])]

\* Counter::visit
Counter_visit(self, name, opts, t) ==
    [count |-> IF opts.do_gradient_update
               THEN usize_add(self.count, NumElements(t.shape))
               ELSE self.count,
     visits |-> Append(self.visits, [path |-> name, opts |-> opts, t |-> t])]

\* the walker's visit_tensor on the fields of a layer, in order: the
\* visitor sees each under the path walked so far and the field's name
RECURSIVE visit_fields(_, _, _)
visit_fields(fields, path, f) ==
    IF fields = <<>> THEN f
    ELSE visit_fields(Tail(fields), path,
             Counter_visit(f, Append(path, Head(fields).name),
                           Head(fields).opts, Head(fields).t))

\* TensorCollection::iter_tensors under a RecursiveWalker: Residual's is
\* visitor.visit_module("0", |s| &s.0, ..), the walk of F one level down
RECURSIVE iter_tensors(_, _, _)
iter_tensors(m, path, f) ==
    IF m.kind = "Residual" THEN iter_tensors(m.inner, Append(path, "0"), f)
    ELSE visit_fields(m.fields, path, f)

\* NumParams::num_trainable_params
num_trainable_params(m) == iter_tensors(m, <<>>, Counter(0))

\* a call of model.num_trainable_params()
num_trainable_params_call(m) ==
    /\ phase = "forward"
    /\ LET op == num_trainable_params(m)
       IN  ret' = [fn |-> "num_trainable_params", args |-> m,
                   value |-> op.count, visits |-> op.visits]
    /\ UNCHANGED <<nextId, cur, tape, grads, phase, applied, ran, leaves, err>>

----------------------------------------------------------------------------
(* The allocation interface of the Cuda device: constructors, copies in   *)
(* and out, array conversion; the user's handles are the tensors in leaves *)

\* the longest vector handed to a constructor or a copy
MaxLen == 2
\* the most handles the user holds
MaxHandles == 2

\* the record of a call: the handle it was made on (0 when none), the
\* vector and the shape handed in, whether it returned Ok, the error of an
\* Err, the identity and the tape of a tensor returned, the array returned
AllocRet(fn, k, src, shape, ok, e, id, t, array) ==
    [fn |-> fn, k |-> k, src |-> src, shape |-> shape, ok |-> ok, err |-> e,
     id |-> id, tape |-> t, array |-> array]

\* unique_id(): the value of the counter, which the caller's step advances
unique_id == nextId

\* Cuda::build_tensor: the tensor and the tape it is given
build_tensor(id, shape, strides, slice) ==
    [tensor |-> Tensor(id, shape, strides, slice), tape |-> NoTape]

\* Ok(tensor) of a constructor or a kernel: the user holds one more handle,
\* and unique_id() has advanced
Built(fn, src, shape, b) ==
    /\ leaves' = Append(leaves, b.tensor)
    /\ nextId' = nextId + 1
    /\ applied' = Append(applied, [kind |-> "built", out |-> b.tensor.id])
    /\ ret' = AllocRet(fn, 0, src, shape, TRUE, "", b.tensor.id, b.tape, <<>>)
    /\ UNCHANGED <<cur, tape, grads, phase, ran, err>>

\* Err(e) of a constructor: the caller holds the error and nothing else
Refused(fn, src, shape, e) ==
    /\ ret' = AllocRet(fn, 0, src, shape, FALSE, e, 0, NoTape, <<>>)
    /\ UNCHANGED <<nextId, cur, tape, grads, phase, applied, ran, leaves, err>>

CanBuild == phase = "forward" /\ Len(leaves) < MaxHandles

\* Cuda::tensor_from_host_buf: htod_copy(buf)? and build_tensor
tensor_from_host_buf(fn, src, shape, buf) ==
    \/ Refused(fn, src, shape, "htod_copy")
    \/ Built(fn, src, shape,
             build_tensor(unique_id, shape, ContigStrides(shape), buf))

\* ZerosTensor::try_zeros_like
try_zeros_like(shape) ==
    /\ CanBuild
    /\ \/ Refused("try_zeros_like", <<>>, shape, "alloc_zeros")
       \/ Built("try_zeros_like", <<>>, shape,
                build_tensor(unique_id, shape, ContigStrides(shape),
                             Zeros(NumElements(shape))))

\* OnesTensor::try_ones_like
try_ones_like(shape) ==
    /\ CanBuild
    /\ tensor_from_host_buf("try_ones_like", <<>>, shape,
                            Ones(NumElements(shape)))

\* SampleTensor::try_sample_like: buf is what the rng drew
try_sample_like(shape, buf) ==
    /\ CanBuild
    /\ Len(buf) = NumElements(shape)
    /\ tensor_from_host_buf("try_sample_like", <<>>, shape, buf)

\* try_tensor_from_vec without the comparison of the lengths
try_tensor_from_vec_unchecked(src, shape) ==
    /\ CanBuild
    /\ tensor_from_host_buf("try_tensor_from_vec", src, shape, src)

\* TensorFromVec::try_tensor_from_vec
try_tensor_from_vec(src, shape) ==
    /\ CanBuild
    /\ LET num_elements == NumElements(shape)
       IN  IF Len(src) # num_elements
           THEN Refused("try_tensor_from_vec", src, shape, "WrongNumElements")
           ELSE tensor_from_host_buf("try_tensor_from_vec", src, shape, src)

\* Tensor::clone: one more handle of the same identity on the same Arc
clone(k) ==
    /\ CanBuild
    /\ k \in DOMAIN leaves
    /\ leaves' = Append(leaves, leaves[k])
    /\ ret' = AllocRet("clone", k, <<>>, <<>>, TRUE, "", leaves[k].id, NoTape, <<>>)
    /\ UNCHANGED <<nextId, cur, tape, grads, phase, applied, ran, err>>

\* PermuteKernel::forward on a handle
permute_handle(k, perm) ==
    /\ CanBuild
    /\ k \in DOMAIN leaves
    /\ perm \in Perms(Len(leaves[k].shape))
    /\ Built("permute", <<>>, leaves[k].shape,
             PermuteKernel_forward(unique_id, leaves[k], perm))

\* StackKernel::forward on two handles of one shape and the same strides
stack_handles(i, j) ==
    /\ CanBuild
    /\ i \in DOMAIN leaves /\ j \in DOMAIN leaves
    /\ leaves[i].shape = leaves[j].shape
    /\ SameStrides(<<leaves[i], leaves[j]>>)
    /\ Built("stack", <<>>, leaves[i].shape,
             [tensor |-> StackKernel_forward(unique_id, <<leaves[i], leaves[j]>>),
              tape |-> NoTape])

\* the handles whose Arc points to the allocation b
Holders(hs, b) == {j \in DOMAIN hs : hs[j].buf = b}

\* a write into the allocation b: every handle on it reads the new contents
Store(hs, b, d) ==
    [j \in DOMAIN hs |->
        IF hs[j].buf = b THEN [hs[j] EXCEPT !.data = d] ELSE hs[j]]

\* the name of an allocation no handle holds; the clones Arc::make_mut
\* makes are numbered below zero, apart from the allocations of the
\* constructors, which go by the identity of their tensor
FreshBuf(hs) ==
    CHOOSE b \in (0 - Len(hs) - 1)..(0 - 1) : Holders(hs, b) = {}

\* Arc::make_mut(&mut hs[k].data): the allocation itself when no other
\* handle holds it, a clone of it behind this handle otherwise
make_mut(hs, k) ==
    IF Holders(hs, hs[k].buf) = {k} THEN hs
    ELSE [hs EXCEPT ![k].buf = FreshBuf(hs)]

\* copy_from writing through the Arc without make_mut
copy_from_in_place(k, src) ==
    /\ phase = "forward"
    /\ k \in DOMAIN leaves
    /\ IF Len(leaves[k].data) # Len(src) THEN Panicked("copy_from")
       ELSE \/ Panicked("unwrap")
            \/ /\ leaves' = Store(leaves, leaves[k].buf, src)
               /\ ret' = AllocRet("copy_from", k, src, <<>>, TRUE, "", 0,
                                  NoTape, <<>>)
               /\ UNCHANGED <<nextId, cur, tape, grads, phase, applied, ran, err>>

\* CopySlice::copy_from: the assert_eq! on the physical length, then the
\* copy into the uniquely held slice, whose failure is unwrapped
copy_from(k, src) ==
    /\ phase = "forward"
    /\ k \in DOMAIN leaves
    /\ IF Len(leaves[k].data) # Len(src) THEN Panicked("copy_from")
       ELSE \/ Panicked("unwrap")
            \/ LET hs == make_mut(leaves, k)
               IN  /\ leaves' = Store(hs, hs[k].buf, src)
                   /\ ret' = AllocRet("copy_from", k, src, <<>>, TRUE, "", 0,
                                      NoTape, <<>>)
                   /\ UNCHANGED <<nextId, cur, tape, grads, phase, applied,
                                  ran, err>>

\* CopySlice::copy_into a slice of the physical length
copy_into(k) ==
    /\ phase = "forward"
    /\ k \in DOMAIN leaves
    /\ \/ Panicked("unwrap")
       \/ /\ ret' = AllocRet("copy_into", k, <<>>, <<>>, TRUE, "", 0, NoTape,
                              leaves[k].data)
          /\ UNCHANGED <<nextId, cur, tape, grads, phase, applied, ran,
                         leaves, err>>

\* Cpu::tensor_to_array: the logical elements in row-major order
ToArray(t) ==
    [n \in 1..NumElements(t.shape) |-> At(t, Unravel(n - 1, t.shape))]

\* tensor_to_array stamping a new identity on the host copy
tensor_to_array_new_id(k) ==
    /\ phase = "forward"
    /\ k \in DOMAIN leaves
    /\ ret' = AllocRet("tensor_to_array", k, <<>>, <<>>, TRUE, "", nextId,
                       NoTape, ToArray(Tensor(nextId, leaves[k].shape,
                                   leaves[k].strides, leaves[k].data)))
    /\ nextId' = nextId + 1
    /\ UNCHANGED <<cur, tape, grads, phase, applied, ran, leaves, err>>

\* TensorToArray::tensor_to_array: a host copy of the buffer under the
\* tensor's own identity, converted by the Cpu device
tensor_to_array(k) ==
    /\ phase = "forward"
    /\ k \in DOMAIN leaves
    /\ \/ Panicked("unwrap")
       \/ /\ ret' = AllocRet("tensor_to_array", k, <<>>, <<>>, TRUE, "",
                              leaves[k].id, NoTape,
                              ToArray(Tensor(leaves[k].id, leaves[k].shape,
                                          leaves[k].strides, leaves[k].data)))
          /\ UNCHANGED <<nextId, cur, tape, grads, phase, applied, ran,
                         leaves, err>>

BinaryFailures == {"forward", "alloc_lhs", "alloc_rhs", "alloc_out"}

\* ops::try_binary_op on the current tensor and an untaped leaf of its shape
try_binary_op(kind, bop, r) ==
    /\ phase = "forward"
    /\ Len(applied) < MaxOps
    /\ r \in 2..Len(leaves)
    /\ leaves[r].shape = cur.shape
    /\ \/ \E at \in BinaryFailures :
              Failed(at, IF at = "forward" THEN 0 ELSE 1)
       \/ \E d \in BinaryKernel_forward(bop, cur, leaves[r], Prod(cur.shape)) :
              LET lhs == cur
                  rhs == leaves[r]
                  t == merge(Tape(tape, grads), NoTape)
                  out == Dense(nextId, lhs.shape, d)
                  g == try_alloc_grad(
                           try_alloc_grad(try_alloc_grad(t.grads, lhs), rhs), out)
              IN  Returned(kind, out,
                      add_backward_op(t.ops,
                          BinaryClosure(kind, bop, lhs, rhs, out)), g)

\* try_maximum handing the wrong kernel op to try_binary_op
try_maximum_minimum_op(r) == try_binary_op("maximum", "MinimumKernelOp", r)

\* Tensor::try_maximum
try_maximum(r) == try_binary_op("maximum", "MaximumKernelOp", r)

\* the Ok path of ops::try_binary_op on two tensors and the tapes they
\* carry: the output d was computed into and the tape it takes
binary_op(kind, bop, lhs, ltape, rhs, rtape, id, d) ==
    LET t == merge(ltape, rtape)
        out == Dense(id, lhs.shape, d)
        g == try_alloc_grad(try_alloc_grad(try_alloc_grad(t.grads, lhs), rhs), out)
    IN  [out |-> out,
         tape |-> Tape(add_backward_op(t.ops,
                           BinaryClosure(kind, bop, lhs, rhs, out)), g)]

\* the modules a Residual is built around: x |-> maximum(x, w) and
\* x |-> minimum(x, w) for a parameter tensor w
ResidualModules ==
    {[kind |-> "maximum", bop |-> "MaximumKernelOp"],
     [kind |-> "minimum", bop |-> "MinimumKernelOp"]}

\* the steps of the wrapped module's try_forward that can return Err
ModuleFailures == {"module_forward", "module_alloc"}

\* the state after Residual::try_forward returned Ok(y) with the tape t
ResidualReturned(y, t) ==
    /\ cur' = y
    /\ tape' = t.ops
    /\ grads' = t.grads
    /\ nextId' = y.id + 1
    /\ applied' = Append(applied, [kind |-> "residual", out |-> y.id])
    /\ UNCHANGED <<phase, ran, leaves, err, ret>>

\* Residual::try_forward returning the module's output without try_add(x)
Residual_try_forward_no_skip(F) ==
    /\ phase = "forward"
    /\ Len(applied) < MaxOps
    /\ \A i \in 1..Len(applied) : applied[i].kind # "residual"
    /\ Len(leaves) >= 2
    /\ leaves[2].shape = cur.shape
    /\ LET x == cur
           w == leaves[2]
           n == Prod(x.shape)
       IN  \/ \E at \in ModuleFailures :
                  Failed(at, IF at = "module_forward" THEN 0 ELSE 1)
           \/ \E d1 \in BinaryKernel_forward(F.bop, x, w, n) :
                  LET fx == binary_op(F.kind, F.bop, x, NoTape, w, NoTape,
                                      nextId, d1)
                  IN  ResidualReturned(fx.out,
                          merge(fx.tape, Tape(tape, grads)))

\* Residual::try_forward: self.0.try_forward(x.with_empty_tape())?.try_add(x)
Residual_try_forward(F) ==
    /\ phase = "forward"
    /\ Len(applied) < MaxOps
    /\ \A i \in 1..Len(applied) : applied[i].kind # "residual"
    /\ Len(leaves) >= 2
    /\ leaves[2].shape = cur.shape
    /\ LET x == cur
           w == leaves[2]
           n == Prod(x.shape)
       IN  \/ \E at \in ModuleFailures :
                  Failed(at, IF at = "module_forward" THEN 0 ELSE 1)
           \/ \E at \in BinaryFailures :
                  Failed(at, IF at = "forward" THEN 1 ELSE 2)
           \/ \E d1 \in BinaryKernel_forward(F.bop, x, w, n) :
                  LET fx == binary_op(F.kind, F.bop, x, NoTape, w, NoTape,
                                      nextId, d1)
                  IN  \E d2 \in BinaryKernel_forward("BinaryAddKernelOp",
                                                     fx.out, x, n) :
                          LET y == binary_op("add", "BinaryAddKernelOp",
                                             fx.out, fx.tape,
                                             x, Tape(tape, grads),
                                             nextId + 1, d2)
                          IN  ResidualReturned(y.out, y.tape)

\* the tensor an item of a stack stands for: 0 is the current tensor, k a
\* freshly traced leaves[k]
ItemOf(k) == IF k = 0 THEN cur ELSE leaves[k]

\* the tape an item carries
TapeOf(k) == IF k = 0 THEN Tape(tape, grads) ELSE NoTape

\* the tape try_stack merges from the items, from the first to the last
RECURSIVE MergeAll(_, _)
MergeAll(t, items) ==
    IF items = <<>> THEN t
    ELSE MergeAll(merge(t, TapeOf(Head(items))), Tail(items))

\* try_alloc_grad for each tensor in turn
RECURSIVE AllocAll(_, _)
AllocAll(g, ts) ==
    IF ts = <<>> THEN g ELSE AllocAll(try_alloc_grad(g, Head(ts)), Tail(ts))

StackFailures == {"alloc_inp", "forward", "alloc_out"}

\* try_stack without the assert_eq! on the shapes
try_stack_unchecked_shapes(items) ==
    /\ phase = "forward"
    /\ Len(applied) < MaxOps
    /\ \A i \in 1..Len(items) : items[i] \in {0} \cup (2..Len(leaves))
    /\ IF Len(items) = 0 THEN Panicked("new_dim")
       ELSE LET tensors == [i \in 1..Len(items) |-> ItemOf(items[i])]
                t == MergeAll(NoTape, items)
                shape == tensors[1].shape
                sameShapes == TRUE
            IN  \/ \E at \in StackFailures :
                      /\ at # "alloc_inp" => sameShapes /\ SameStrides(tensors)
                      /\ Failed(at, IF at = "alloc_out" THEN 1 ELSE 0)
                \/ ~sameShapes /\ Panicked("shape")
                \/ sameShapes /\ ~SameStrides(tensors) /\ Panicked("strides")
                \/ /\ sameShapes
                   /\ SameStrides(tensors)
                   /\ LET out == StackKernel_forward(nextId, tensors)
                          g == try_alloc_grad(AllocAll(t.grads, tensors), out)
                      IN  Returned("stack", out,
                              add_backward_op(t.ops,
                                  Closure("stack", tensors, out, {}, NoOp)), g)

\* try_stack without try_alloc_grad for the items
try_stack_unallocated(items) ==
    /\ phase = "forward"
    /\ Len(applied) < MaxOps
    /\ \A i \in 1..Len(items) : items[i] \in {0} \cup (2..Len(leaves))
    /\ IF Len(items) = 0 THEN Panicked("new_dim")
       ELSE LET tensors == [i \in 1..Len(items) |-> ItemOf(items[i])]
                t == MergeAll(NoTape, items)
                shape == tensors[1].shape
                sameShapes == \A i \in 1..Len(tensors) : tensors[i].shape = shape
            IN  \/ \E at \in StackFailures :
                      /\ at # "alloc_inp" => sameShapes /\ SameStrides(tensors)
                      /\ Failed(at, IF at = "alloc_out" THEN 1 ELSE 0)
                \/ ~sameShapes /\ Panicked("shape")
                \/ sameShapes /\ ~SameStrides(tensors) /\ Panicked("strides")
                \/ /\ sameShapes
                   /\ SameStrides(tensors)
                   /\ LET out == StackKernel_forward(nextId, tensors)
                          g == try_alloc_grad(t.grads, out)
                      IN  Returned("stack", out,
                              add_backward_op(t.ops,
                                  Closure("stack", tensors, out, {}, NoOp)), g)

\* TryStack::try_stack
try_stack(items) ==
    /\ phase = "forward"
    /\ Len(applied) < MaxOps
    /\ \A i \in 1..Len(items) : items[i] \in {0} \cup (2..Len(leaves))
    /\ IF Len(items) = 0 THEN Panicked("new_dim")
       ELSE LET tensors == [i \in 1..Len(items) |-> ItemOf(items[i])]
                t == MergeAll(NoTape, items)
                shape == tensors[1].shape
                sameShapes == \A i \in 1..Len(tensors) : tensors[i].shape = shape
            IN  \/ \E at \in StackFailures :
                      /\ at # "alloc_inp" => sameShapes /\ SameStrides(tensors)
                      /\ Failed(at, IF at = "alloc_out" THEN 1 ELSE 0)
                \/ ~sameShapes /\ Panicked("shape")
                \/ sameShapes /\ ~SameStrides(tensors) /\ Panicked("strides")
                \/ /\ sameShapes
                   /\ SameStrides(tensors)
                   /\ LET out == StackKernel_forward(nextId, tensors)
                          g == try_alloc_grad(AllocAll(t.grads, tensors), out)
                      IN  Returned("stack", out,
                              add_backward_op(t.ops,
                                  Closure("stack", tensors, out, {}, NoOp)), g)

\* Backward::backward on the final scalar: its gradient is set to one and the
\* tape is executed; the gradient map is what the caller gets back
backward ==
    /\ phase = "forward"
    /\ cur.shape = <<>>
    /\ LET g0 == [try_alloc_grad(grads, cur) EXCEPT ![cur.id] = Ones(1)]
           r == Execute(tape, g0, <<>>)
       IN  /\ grads' = r.grads
           /\ ran' = r.log
    /\ tape' = <<>>
    /\ cur' = NoTensor
    /\ phase' = "done"
    /\ UNCHANGED <<nextId, applied, leaves, err, ret>>

----------------------------------------------------------------------------
(* Inputs *)

\* the element values tensors are filled with
Vals == {NegZero, PosZero} \cup {FromInt(v) : v \in 1..MaxVal}
            \cup {FromInt(0 - v) : v \in 1..MaxVal}

\* every contiguous tensor of the shape over a set of values
AllDense(id, shape, V) == {Dense(id, shape, d) : d \in [1..Prod(shape) -> V]}

IntData(ints) == [i \in 1..Len(ints) |-> FromInt(ints[i])]

\* the tensors of the reduction tests
SumExample == Dense(1, <<2, 3>>, IntData(<<1, 2, 3, -2, 4, -6>>))
MaxExample == Dense(1, <<2, 3>>, IntData(<<1, 2, 2, 3, -2, 2>>))
MinExample == Dense(1, <<2, 3>>, IntData(<<1, 1, 2, 3, -2, 2>>))
ZeroExample ==
    Dense(1, <<4, 2>>, <<NegZero, PosZero, PosZero, NegZero,
                         FromInt(-1), NegZero, FromInt(-1), PosZero>>)

ReduceShapes == {<<3>>, <<2, 2>>}

\* a Rank3 tensor with ties along every axis, for reductions of several axes
AxesExample == Dense(1, <<2, 2, 2>>, IntData(<<1, 2, 2, -1, 2, 0, -1, 1>>))

ReduceLeaves ==
    UNION {AllDense(1, sh, Vals) : sh \in ReduceShapes}
        \cup {SumExample, MaxExample, MinExample, ZeroExample, AxesExample}

\* the state after the user built the leaves and traced the first of them
InitFrom(L) ==
    /\ leaves \in L
    /\ cur = leaves[1]
    /\ nextId = Len(leaves) + 1
    /\ tape = <<>>
    /\ grads = NoGrads
    /\ phase = "forward"
    /\ applied = <<>>
    /\ ran = <<>>
    /\ err = ""
    /\ ret = NoCall

AxesSets == SUBSET (1..4)

----------------------------------------------------------------------------
(* The reductions alone: one leaf, reduced and back-propagated *)

InitReduce == InitFrom({<<t>> : t \in ReduceLeaves})

NextReduce ==
    \/ \E Ax \in AxesSets : try_sum(Ax)
    \/ \E Ax \in AxesSets : try_max(Ax)
    \/ \E Ax \in AxesSets : try_min(Ax)
    \/ backward

SpecReduce == InitReduce /\ [][NextReduce]_vars

----------------------------------------------------------------------------
(* 2-D pooling alone: one (C, H, W) or (B, C, H, W) leaf, pooled, reduced  *)
(* to a scalar and back-propagated                                         *)

\* the largest kernel size and stride tried
MaxKernel == 2

\* the tensor of test_pool2d_3d_max2d_eq_grads
PoolExample ==
    Dense(1, <<1, 2, 4>>,
          <<FromInt(1), FromInt(1), Frac(1, 2), Frac(1, 5),
            Frac(1, 5), Frac(1, 5), Frac(1, 2), Frac(6, 5)>>)

PoolVals == {FromInt(v) : v \in 0..MaxVal}

PoolShapes == {<<1, 1, 3>>, <<1, 2, 2>>, <<2, 1, 1, 2>>}

PoolLeaves ==
    UNION {AllDense(1, sh, PoolVals) : sh \in PoolShapes} \cup {PoolExample}

PoolParams == {kp \in (1..MaxKernel) \X (1..MaxKernel) \X (0..MaxKernel) : TRUE}

InitPool == InitFrom({<<t>> : t \in PoolLeaves})

\* x.trace().pool2d::<K, S, P>().sum().backward(), as the pooling tests run
NextPool ==
    \/ \E kp \in PoolParams :
          applied = <<>> /\ try_avg_pool2d(kp[1], kp[2], kp[3])
    \/ \E kp \in PoolParams :
          applied = <<>> /\ try_max_pool2d(kp[1], kp[2], kp[3])
    \/ \E kp \in PoolParams :
          applied = <<>> /\ try_min_pool2d(kp[1], kp[2], kp[3])
    \/ Len(applied) = 1 /\ try_sum(1..Len(cur.shape))
    \/ backward

SpecPool == InitPool /\ [][NextPool]_vars

----------------------------------------------------------------------------
(* Element-wise maximum alone: a traced leaf and an untaped one of the     *)
(* same shape                                                              *)

\* the tensors of test_maximum
MaximumExample ==
    <<Dense(1, <<2, 3>>, IntData(<<-1, 0, 1, 3, 4, -5>>)),
      Dense(2, <<2, 3>>, IntData(<<0, 0, -1, 3, -4, 5>>))>>

MaximumLeaves ==
    {<<a, b>> : a \in AllDense(1, <<2>>, Vals), b \in AllDense(2, <<2>>, Vals)}
        \cup {MaximumExample}

InitMaximum == InitFrom(MaximumLeaves)

\* a.trace().maximum(b.clone()).sum().backward(), as test_maximum runs
NextMaximum ==
    \/ applied = <<>> /\ try_maximum(2)
    \/ Len(applied) = 1 /\ try_sum(1..Len(cur.shape))
    \/ backward

SpecMaximum == InitMaximum /\ [][NextMaximum]_vars

----------------------------------------------------------------------------
(* Chains of operations on one traced leaf, back-propagated from a scalar *)

\* the second leaf of a chain: the right operand of maximum, an item of stack
ChainPartner == Dense(2, <<1, 1, 2>>, <<FromInt(1), PosZero>>)
PoolPartner ==
    Dense(2, <<1, 2, 4>>,
          <<Frac(1, 2), FromInt(1), FromInt(1), PosZero,
            PosZero, Frac(1, 5), FromInt(1), FromInt(1)>>)

ChainLeaves ==
    {<<a, ChainPartner>> : a \in AllDense(1, <<1, 1, 2>>, PoolVals)}
        \cup {<<PoolExample, PoolPartner>>}

\* the axes a chain reduces over: the last one, or all of them
ChainAxes == {{Len(cur.shape)}, 1..Len(cur.shape)}

\* the pooling instances of a chain
ChainParams == {<<1, 1, 0>>, <<2, 1, 1>>}

\* the item lists of a chain's stack: none, the current tensor alone, or the
\* current tensor next to the freshly traced second leaf
StackItems == {<<>>, <<0>>, <<0, 2>>, <<2, 0>>}

Init == InitFrom(ChainLeaves)

Next ==
    \/ \E Ax \in ChainAxes : try_sum(Ax)
    \/ \E Ax \in ChainAxes : try_max(Ax)
    \/ \E Ax \in ChainAxes : try_min(Ax)
    \/ \E kp \in ChainParams : try_avg_pool2d(kp[1], kp[2], kp[3])
    \/ \E kp \in ChainParams : try_max_pool2d(kp[1], kp[2], kp[3])
    \/ \E kp \in ChainParams : try_min_pool2d(kp[1], kp[2], kp[3])
    \/ try_maximum(2)
    \/ \E items \in StackItems : try_stack(items)
    \/ backward

Spec == Init /\ [][Next]_vars

----------------------------------------------------------------------------
(* stack alone: traced leaves, contiguous or broadcast views, stacked,     *)
(* reduced to a scalar and back-propagated                                 *)

\* x.broadcast::<Rank2<2, 2>, _>() of a Rank1<2> tensor: a stride-0 axis in
\* front, the buffer of two elements
BroadcastLeaf(id, d) == Tensor(id, <<2, 2>>, <<0, 1>>, d)

\* the tensors a stack is tried on: same-shape vectors, broadcast views of
\* them, a contiguous tensor of the views' shape and one of another shape
StackTensors(id) ==
    AllDense(id, <<2>>, PoolVals)
        \cup {BroadcastLeaf(id, d) : d \in [1..2 -> PoolVals]}
        \cup {Dense(id, <<2, 2>>, IntData(<<1, 0, 0, 1>>)),
              Dense(id, <<3>>, IntData(<<1, 0, 1>>))}

\* three tensors of one shape, as test_stack_backwards stacks them
StackTriples ==
    {<<Dense(1, <<2>>, IntData(<<1, 0>>)), Dense(2, <<2>>, IntData(<<0, 1>>)),
       Dense(3, <<2>>, IntData(<<1, 1>>))>>,
     <<BroadcastLeaf(1, IntData(<<1, 0>>)), BroadcastLeaf(2, IntData(<<0, 1>>)),
       BroadcastLeaf(3, IntData(<<0, 0>>))>>}

StackLeaves ==
    {<<a, b>> : a \in StackTensors(1), b \in StackTensors(2)} \cup StackTriples

\* the item lists: 0 is the traced first leaf, k the freshly traced leaves[k]
StackLists == {<<>>, <<0>>, <<0, 2>>, <<2, 0>>, <<0, 2, 3>>, <<3, 0, 2>>}

InitStack == InitFrom(StackLeaves)

\* dev.stack([x.trace(), y.trace(), ..]) reduced to a scalar, then backward
NextStack ==
    \/ \E items \in StackLists : applied = <<>> /\ try_stack(items)
    \/ Len(applied) = 1 /\ try_sum(1..Len(cur.shape))
    \/ Len(applied) = 1 /\ try_max(1..Len(cur.shape))
    \/ backward

SpecStack == InitStack /\ [][NextStack]_vars

----------------------------------------------------------------------------
(* Broadcasts reduced again: a traced leaf, broadcast, summed and          *)
(* back-propagated                                                         *)

\* the tensor of test_sum_reduce_to_more_than_physical_elements and the one
\* of test_sum_reduce_to_0d_from_broadcasted
BroadcastExample == Dense(1, <<3>>, IntData(<<1, 2, 3>>))
OnesExample == Dense(1, <<3>>, Ones(3))

BroadcastLeaves ==
    AllDense(1, <<2>>, Vals) \cup AllDense(1, <<1, 2>>, Vals)
        \cup {BroadcastExample, OnesExample}

\* the broadcasts tried: the target shape and its new axes
BroadcastTargets ==
    {<<<<4, 3, 2>>, {1, 3}>>, <<<<3, 2>>, {2}>>,
     <<<<2, 2>>, {1}>>, <<<<2, 2>>, {2}>>, <<<<3, 2>>, {1}>>,
     <<<<2, 1, 2>>, {1}>>, <<<<1, 2, 2>>, {3}>>}

InitBroadcast == InitFrom({<<t>> : t \in BroadcastLeaves})

\* a.trace().broadcast::<Dst, Ax>().sum::<_, Ax2>() and backward
NextBroadcast ==
    \/ \E b \in BroadcastTargets : applied = <<>> /\ try_broadcast(b[1], b[2])
    \/ \E Ax \in AxesSets : Len(applied) >= 1 /\ try_sum(Ax)
    \/ backward

SpecBroadcast == InitBroadcast /\ [][NextBroadcast]_vars

----------------------------------------------------------------------------
(* permute alone: a traced leaf, permuted, reduced to a scalar and         *)
(* back-propagated                                                         *)

PermuteLeaves ==
    AllDense(1, <<1, 2>>, Vals)
        \cup {BroadcastLeaf(1, d) : d \in [1..2 -> PoolVals]}
        \cup {SumExample, MaxExample, MinExample, AxesExample}

InitPermute == InitFrom({<<t>> : t \in PermuteLeaves})

\* t.trace().permute::<Dst, Ax>() reduced to a scalar, then backward
NextPermute ==
    \/ \E perm \in Perms(Len(cur.shape)) : applied = <<>> /\ try_permute(perm)
    \/ Len(applied) >= 1 /\ try_sum(1..Len(cur.shape))
    \/ Len(applied) >= 1 /\ try_max(1..Len(cur.shape))
    \/ Len(applied) >= 1 /\ try_min({Len(cur.shape)})
    \/ backward

SpecPermute == InitPermute /\ [][NextPermute]_vars

----------------------------------------------------------------------------
(* Residual around a module: the input a traced leaf or a reduction of it *)

\* whole-number elements, the values of the module's parameter
WholeVals == {FromInt(v) : v \in 0..MaxVal} \cup {FromInt(0 - v) : v \in 1..MaxVal}

ResidualLeaves ==
    {<<x, w>> : x \in AllDense(1, <<2>>, WholeVals),
                w \in AllDense(2, <<2>>, WholeVals)}
        \cup {<<x, w>> : x \in AllDense(1, <<>>, Vals),
                         w \in AllDense(2, <<>>, Vals)}
        \cup {<<x, Dense(2, <<>>, <<PosZero>>)>> : x \in AllDense(1, <<2>>, WholeVals)}

InitResidual == InitFrom(ResidualLeaves)

\* model.forward(x.trace()) reduced to a scalar and back-propagated, or the
\* same on a reduction of the leaf
NextResidual ==
    \/ \E F \in ResidualModules : Residual_try_forward(F)
    \/ try_sum(1..Len(cur.shape))
    \/ backward

SpecResidual == InitResidual /\ [][NextResidual]_vars

----------------------------------------------------------------------------
(* Pool2DOp::new alone, on the const parameters and extents of a call *)

\* the state before any tensor is built
InitEmpty ==
    /\ leaves = <<>>
    /\ cur = NoTensor
    /\ nextId = 1
    /\ tape = <<>>
    /\ grads = NoGrads
    /\ phase = "forward"
    /\ applied = <<>>
    /\ ran = <<>>
    /\ err = ""
    /\ ret = NoCall

\* kernels up to two past the largest one pooled with, so that some exceed
\* the padded extent; strides of at least one
OpParams ==
    {kp \in (1..(MaxKernel + 2)) \X (1..MaxKernel) \X (0..MaxKernel) : TRUE}

\* [batch, chan, h_in, w_in]
OpDims == {<<1, 1, h, w>> : h \in 1..(MaxKernel + 1), w \in 1..(MaxKernel + 1)}

InitPoolOp == InitEmpty

NextPoolOp ==
    \E kp \in OpParams, dims \in OpDims :
        Pool2DOp_new_call(kp[1], kp[2], kp[3], dims)

SpecPoolOp == InitPoolOp /\ [][NextPoolOp]_vars

----------------------------------------------------------------------------
(* The allocation interface alone: handles built, shared, written and read *)

\* the elements of the vectors and of the samples
AllocVals == {PosZero, FOne}

AllocShapes == {<<2>>, <<1, 2>>}

\* the vectors up to MaxLen
Vectors == UNION {[1..n -> AllocVals] : n \in 0..MaxLen}

InitAlloc == InitEmpty

NextAlloc ==
    \/ \E shape \in AllocShapes : try_zeros_like(shape)
    \/ \E shape \in AllocShapes : try_ones_like(shape)
    \/ \E shape \in AllocShapes, buf \in Vectors : try_sample_like(shape, buf)
    \/ \E shape \in AllocShapes, src \in Vectors :
          try_tensor_from_vec(src, shape)
    \/ \E k \in 1..MaxHandles : clone(k)
    \/ \E k \in 1..MaxHandles, perm \in Perms(2) : permute_handle(k, perm)
    \/ \E i, j \in 1..MaxHandles : stack_handles(i, j)
    \/ \E k \in 1..MaxHandles, src \in Vectors : copy_from(k, src)
    \/ \E k \in 1..MaxHandles : copy_into(k)
    \/ \E k \in 1..MaxHandles : tensor_to_array(k)

SpecAlloc == InitAlloc /\ [][NextAlloc]_vars

----------------------------------------------------------------------------
(* num_trainable_params alone, on layers and Residuals around them *)

\* a tensor of a module, as the visitor sees it
Field(name, flag, shape) ==
    [name |-> name, opts |-> [do_gradient_update |-> flag],
     t |-> Dense(0, shape, Zeros(Prod(shape)))]

FieldShapes == {<<>>, <<2>>, <<2, 3>>}

\* layers without tensors, with a weight, with a weight and a bias;
\* trainable or not
Layers ==
    {Layer(<<>>)}
        \cup {Layer(<<Field("weight", b, sh)>>) :
                 b \in BOOLEAN, sh \in FieldShapes}
        \cup {Layer(<<Field("weight", b1, s1), Field("bias", b2, s2)>>) :
                 b1 \in BOOLEAN, s1 \in FieldShapes,
                 b2 \in BOOLEAN, s2 \in FieldShapes}

RECURSIVE Wrapped(_)
Wrapped(d) ==
    IF d = 0 THEN Layers ELSE {Residual(F) : F \in Wrapped(d - 1)}

Modules == UNION {Wrapped(d) : d \in 0..MaxDepth}

InitCount == InitEmpty

NextCount == \E m \in Modules : num_trainable_params_call(m)

SpecCount == InitCount /\ [][NextCount]_vars

----------------------------------------------------------------------------
(* Vocabulary of the properties *)

\* every logical index of a shape
IdxSet(shape) ==
    {idx \in [1..Len(shape) -> 0..MaxExtent(shape)] :
        \A d \in 1..Len(shape) : idx[d] < shape[d]}

\* the k-th axis that a reduction over Ax keeps
KeptAxis(rank, Ax, k) ==
    CHOOSE d \in (1..rank) \ Ax : Cardinality((1..d) \ Ax) = k

\* the index of the output slot an input index is reduced into
OutIdx(idx, Ax) ==
    [k \in 1..(Len(idx) - Cardinality(Ax)) |-> idx[KeptAxis(Len(idx), Ax, k)]]

\* the input indices reduced into the same output slot as idx
SliceOf(shape, Ax, idx) ==
    {other \in IdxSet(shape) : OutIdx(other, Ax) = OutIdx(idx, Ax)}

\* the gradient buffer entry of a contiguous or strided tensor at an index
GradAt(g, t, idx) == g[t.id][Offset(idx, t.strides) + 1]

\* every closure recorded so far, executed or not
Recorded == {tape[i] : i \in 1..Len(tape)} \cup {ran[i].op : i \in 1..Len(ran)}

RECURSIVE IntSum(_, _)
IntSum(S, f) ==
    IF S = {} THEN 0
    ELSE LET x == CHOOSE y \in S : TRUE IN f[x] + IntSum(S \ {x}, f)

\* an integer-valued element as an integer
IntOf(v) == IF v.s = 1 THEN 0 - v.n ELSE v.n

\* everything but one identity's buffer is left as it was
OnlyWrote(e, ids) ==
    /\ DOMAIN e.after = DOMAIN e.before
    /\ \A id \in DOMAIN e.before : id \notin ids => e.after[id] = e.before[id]

----------------------------------------------------------------------------
(* Properties of the reductions, under SpecReduce *)

SumForwardOk(c) ==
    LET inp == c.inps[1]
    IN  /\ c.out.shape = [k \in 1..(Len(inp.shape) - Cardinality(c.axes)) |->
                              inp.shape[KeptAxis(Len(inp.shape), c.axes, k)]]
        /\ Len(c.out.data) = Prod(c.out.shape)
        /\ \A idx \in IdxSet(inp.shape) :
              LET o == At(c.out, OutIdx(idx, c.axes))
                  S == SliceOf(inp.shape, c.axes, idx)
              IN  /\ o.d = 1
                  /\ IntOf(o) = IntSum(S, [i \in S |-> IntOf(At(inp, i))])

SumBackwardOk(e) ==
    LET inp == e.op.inps[1]
    IN  /\ OnlyWrote(e, {inp.id})
        /\ \A idx \in IdxSet(inp.shape) :
              GradAt(e.after, inp, idx)
                  = FAdd(GradAt(e.before, inp, idx),
                         GradAt(e.before, e.op.out, OutIdx(idx, e.op.axes)))

\* C2: sum forward writes to each output slot the sum of the matching input
\* slice; sum backward adds to each input position's gradient the output
\* gradient of the slot it was reduced into and touches no other buffer; and
\* backward from a sum to a scalar leaves the leaf's gradient all ones.
C2_Sum ==
    /\ \A c \in Recorded : c.kind = "sum" => SumForwardOk(c)
    /\ \A i \in 1..Len(ran) : ran[i].op.kind = "sum" => SumBackwardOk(ran[i])
    /\ (phase = "done" /\ Len(ran) = 1 /\ ran[1].op.kind = "sum")
          => grads[leaves[1].id] = Ones(Len(leaves[1].data))

C2_Witness ==
    /\ phase = "done"
    /\ Len(ran) = 2
    /\ ran[2].op.kind = "sum"
    /\ ran[2].op.inps[1] = SumExample
    /\ ran[2].op.axes = {1}
    /\ ran[2].op.out.data = IntData(<<-1, 6, -3>>)
    /\ ran[1].op.kind = "sum"
    /\ grads[1] = Ones(6)

\* whether the element at idx attains the extremum of its slice, the two
\* zeros counting as equal
Attains(kind, inp, Ax, idx) ==
    \A o \in SliceOf(inp.shape, Ax, idx) :
        IF kind = "max" THEN ~FLt(At(inp, idx), At(inp, o))
                        ELSE ~FLt(At(inp, o), At(inp, idx))

\* the number of positions of idx's slice that hold a value equal to idx's
Ties(inp, Ax, idx) ==
    Cardinality({o \in SliceOf(inp.shape, Ax, idx) :
                    FEq(At(inp, o), At(inp, idx))})

ExtremumBackwardOk(e) ==
    LET inp == e.op.inps[1]
    IN  /\ OnlyWrote(e, {inp.id})
        /\ \A idx \in IdxSet(inp.shape) :
              GradAt(e.after, inp, idx)
                  = FAdd(GradAt(e.before, inp, idx),
                         IF Attains(e.op.kind, inp, e.op.axes, idx)
                         THEN GradAt(e.before, e.op.out, OutIdx(idx, e.op.axes))
                         ELSE PosZero)

\* a finished run leaf -> kind over Ax -> sum to a scalar -> backward
RanReduceThenSum(leaf, kind, Ax) ==
    /\ phase = "done"
    /\ leaves[1] = leaf
    /\ Len(ran) = 2
    /\ ran[2].op.kind = kind
    /\ ran[2].op.axes = Ax
    /\ ran[1].op.kind = "sum"

FDivN(a, k) == Flt(a.s, a.n, a.d * k)

\* C4: in max and min backward the k positions of a slice that tie for the
\* extremum each get grad_out / k.
C4_TiesSplit ==
    \A i \in 1..Len(ran) :
        ran[i].op.kind \in {"max", "min"} =>
            LET e == ran[i]
                inp == e.op.inps[1]
            IN  \A idx \in IdxSet(inp.shape) :
                    Attains(e.op.kind, inp, e.op.axes, idx) =>
                        GradAt(e.after, inp, idx)
                            = FAdd(GradAt(e.before, inp, idx),
                                   FDivN(GradAt(e.before, e.op.out,
                                                OutIdx(idx, e.op.axes)),
                                         Ties(inp, e.op.axes, idx)))

\* C5: a slice that holds both zeros and nothing larger has max +0, one that
\* holds both zeros and nothing smaller has min -0, whichever zero comes
\* first.
C5_ZeroOrder ==
    \A c \in Recorded : c.kind \in {"max", "min"} =>
        LET inp == c.inps[1]
        IN  \A idx \in IdxSet(inp.shape) :
                LET S == SliceOf(inp.shape, c.axes, idx)
                    both == /\ \E o \in S : At(inp, o) = NegZero
                            /\ \E o \in S : At(inp, o) = PosZero
                    top == \A o \in S : ~FLt(PosZero, At(inp, o))
                    bottom == \A o \in S : ~FLt(At(inp, o), PosZero)
                    res == At(c.out, OutIdx(idx, c.axes))
                IN  /\ (c.kind = "max" /\ both /\ top) => res = PosZero
                    /\ (c.kind = "min" /\ both /\ bottom) => res = NegZero

C5_Witness ==
    /\ Len(tape) = 2
    /\ tape[1].kind = "max"
    /\ tape[1].inps[1] = ZeroExample
    /\ tape[1].axes = {2}
    /\ tape[1].out.data = <<PosZero, PosZero, NegZero, PosZero>>
    /\ tape[2].kind = "min"
    /\ tape[2].out.data = <<NegZero>>

----------------------------------------------------------------------------
(* Properties of 2-D pooling, under SpecPool *)

RECURSIVE FSum(_, _)
FSum(S, f) ==
    IF S = {} THEN PosZero
    ELSE LET x == CHOOSE y \in S : TRUE IN FAdd(f[x], FSum(S \ {x}, f))

\* the spatial part and the leading part of an index
RowOf(idx) == idx[Len(idx) - 1]
ColOf(idx) == idx[Len(idx)]
LeadOf(idx) == SubSeq(idx, 1, Len(idx) - 2)

\* whether the window of output index o covers input index i
Covers(op, o, i) ==
    /\ LeadOf(o) = LeadOf(i)
    /\ RowOf(o) * op.stride - op.padding <= RowOf(i)
    /\ RowOf(i) < RowOf(o) * op.stride - op.padding + op.kernel
    /\ ColOf(o) * op.stride - op.padding <= ColOf(i)
    /\ ColOf(i) < ColOf(o) * op.stride - op.padding + op.kernel

\* the input indices the window of output index o covers
Covered(op, inp, o) == {i \in IdxSet(inp.shape) : Covers(op, o, i)}

\* whether input index i holds the extremum of the window of o
WinAttains(kind, op, inp, o, i) ==
    \A j \in Covered(op, inp, o) :
        IF kind = "max_pool" THEN ~FLt(At(inp, i), At(inp, j))
                             ELSE ~FLt(At(inp, j), At(inp, i))

\* the output indices whose window covers i and has its extremum at i
HitsOf(kind, op, inp, out, i) ==
    {o \in IdxSet(out.shape) :
        Covers(op, o, i) /\ WinAttains(kind, op, inp, o, i)}

\* the positions of the window of o that tie for its extremum
TiedIn(kind, op, inp, o) ==
    {i \in Covered(op, inp, o) : WinAttains(kind, op, inp, o, i)}

\* a finished run leaf -> pool kind with K, S, P -> sum to a scalar -> backward
RanPoolThenSum(leaf, kind, K, S, P) ==
    /\ phase = "done"
    /\ leaves[1] = leaf
    /\ Len(ran) = 2
    /\ ran[2].op.kind = kind
    /\ ran[2].op.op.kernel = K
    /\ ran[2].op.op.stride = S
    /\ ran[2].op.op.padding = P
    /\ ran[1].op.kind = "sum"

ExtremumPoolBackwardOk(e) ==
    LET inp == e.op.inps[1]
        out == e.op.out
    IN  /\ OnlyWrote(e, {inp.id})
        /\ \A i \in IdxSet(inp.shape) :
              LET hits == HitsOf(e.op.kind, e.op.op, inp, out, i)
              IN  GradAt(e.after, inp, i)
                    = FAdd(GradAt(e.before, inp, i),
                           FSum(hits, [o \in hits |-> GradAt(e.before, out, o)]))

\* C7: in max_pool2d and min_pool2d backward every input position that holds
\* the extremum of a window gets that window's whole output gradient, summed
\* over all the windows it does so for; K=2, S=1, P=0 max pooling of
\* [[[1,1,0.5,0.2],[0.2,0.2,0.5,1.2]]] gives [[[1,1,1.2]]] and, after backward
\* from sum, the gradient [[[1,2,0,0],[0,0,0,1]]].
C7_PoolFullGradient ==
    /\ \A n \in 1..Len(ran) :
          ran[n].op.kind \in {"max_pool", "min_pool"}
              => ExtremumPoolBackwardOk(ran[n])
    /\ RanPoolThenSum(PoolExample, "max_pool", 2, 1, 0)
          => /\ ran[2].op.out.shape = <<1, 1, 3>>
             /\ ran[2].op.out.data = <<FromInt(1), FromInt(1), Frac(6, 5)>>
             /\ grads[1] = IntData(<<1, 2, 0, 0, 0, 0, 0, 1>>)
    /\ RanPoolThenSum(PoolExample, "min_pool", 2, 1, 0)
          => /\ ran[2].op.out.data = <<Frac(1, 5), Frac(1, 5), Frac(1, 5)>>
             /\ grads[1] = IntData(<<0, 0, 0, 1, 1, 2, 0, 0>>)

C7_Witness ==
    /\ RanPoolThenSum(PoolExample, "max_pool", 2, 1, 0)
    /\ grads[1][2] = FromInt(2)

C9_PoolExtents ==
    \A c \in Recorded : c.kind \in {"avg_pool", "max_pool", "min_pool"} =>
        LET inp == c.inps[1]
            r == Len(inp.shape)
            H == inp.shape[r - 1]
            W == inp.shape[r]
            K == c.op.kernel
            S == c.op.stride
            P == c.op.padding
        IN  /\ c.op.h_in = H /\ c.op.w_in = W
            /\ c.op.h_out = (H + 2 * P - K) \div S + 1
            /\ c.op.w_out = (W + 2 * P - K) \div S + 1
            /\ c.op.h_out = Cardinality({n \in 0..(H + 2 * P) : n * S + K <= H + 2 * P})
            /\ c.op.w_out = Cardinality({n \in 0..(W + 2 * P) : n * S + K <= W + 2 * P})
            /\ c.op.chan = inp.shape[r - 2]
            /\ c.op.batch = (IF r = 3 THEN 1 ELSE inp.shape[1])
            /\ c.out.shape = LeadOf(inp.shape) \o <<c.op.h_out, c.op.w_out>>
            /\ Len(c.out.data) = c.op.batch * c.op.chan * c.op.h_out * c.op.w_out

C9_Witness ==
    \E c \in Recorded :
        /\ c.kind = "avg_pool"
        /\ Len(c.inps[1].shape) = 4
        /\ c.op.kernel = 2 /\ c.op.stride = 2 /\ c.op.padding = 1
        /\ c.op.h_out = 1 /\ c.op.w_out = 2
        /\ c.out.shape = <<2, 1, 1, 2>>

AvgPoolOk(c) ==
    LET inp == c.inps[1]
        k2 == FromInt(c.op.kernel * c.op.kernel)
    IN  \A o \in IdxSet(c.out.shape) :
            LET win == Covered(c.op, inp, o)
            IN  FMul(At(c.out, o), k2) = FSum(win, [i \in win |-> At(inp, i)])

AvgPoolBackwardOk(e) ==
    LET inp == e.op.inps[1]
        out == e.op.out
        k2 == e.op.op.kernel * e.op.op.kernel
    IN  /\ OnlyWrote(e, {inp.id})
        /\ \A i \in IdxSet(inp.shape) :
              LET wins == {o \in IdxSet(out.shape) : Covers(e.op.op, o, i)}
              IN  GradAt(e.after, inp, i)
                    = FAdd(GradAt(e.before, inp, i),
                           FSum(wins, [o \in wins |->
                               FDivN(GradAt(e.before, out, o), k2)]))

\* C10: avg_pool2d writes to each output position the sum of the in-bounds
\* elements of its window divided by K*K, whatever part of the window is
\* padding; its backward adds grad_out / (K*K) to every in-bounds position of
\* each window, so a position no window covers gets nothing.
C10_AvgPool ==
    /\ \A c \in Recorded : c.kind = "avg_pool" => AvgPoolOk(c)
    /\ \A n \in 1..Len(ran) :
          ran[n].op.kind = "avg_pool" => AvgPoolBackwardOk(ran[n])

C10_Witness ==
    /\ phase = "done"
    /\ Len(ran) = 2
    /\ ran[2].op.kind = "avg_pool"
    /\ ran[2].op.inps[1].shape = <<1, 1, 3>>
    /\ ran[2].op.inps[1].data = Ones(3)
    /\ ran[2].op.op.kernel = 2 /\ ran[2].op.op.stride = 1
    /\ ran[2].op.op.padding = 1
    /\ ran[2].op.out.data[1] = Frac(1, 4)
    /\ grads[1][1] = FromInt(1)

----------------------------------------------------------------------------
(* Properties of element-wise maximum, under SpecMaximum *)

MaximumForwardOk(c) ==
    LET a == c.inps[1]
        b == c.inps[2]
    IN  /\ c.out.shape = a.shape
        /\ \A i \in IdxSet(a.shape) :
              /\ At(c.out, i) \in {At(a, i), At(b, i)}
              /\ ~FLt(At(c.out, i), At(a, i))
              /\ ~FLt(At(c.out, i), At(b, i))

\* what an operand holding x gets of the output gradient go against y
MaximumShare(x, y, go) ==
    IF FLt(y, x) THEN go ELSE IF FEq(x, y) THEN FDivN(go, 2) ELSE PosZero

MaximumBackwardOk(e) ==
    LET a == e.op.inps[1]
        b == e.op.inps[2]
        out == e.op.out
    IN  /\ OnlyWrote(e, {a.id, b.id})
        /\ \A i \in IdxSet(a.shape) :
              LET go == GradAt(e.before, out, i)
              IN  /\ GradAt(e.after, a, i)
                        = FAdd(GradAt(e.before, a, i),
                               MaximumShare(At(a, i), At(b, i), go))
                  /\ GradAt(e.after, b, i)
                        = FAdd(GradAt(e.before, b, i),
                               MaximumShare(At(b, i), At(a, i), go))

\* C6: maximum(a, b) holds at each position the larger of the two operands;
\* backward gives the strictly larger operand the whole output gradient and
\* the other nothing, and half to each when they are equal; on the tensors
\* of test_maximum the result is [[0,0,1],[3,4,5]] and the gradients are
\* [[0,0.5,1],[0.5,1,0]] and [[1,0.5,0],[0.5,0,1]].
C6_Maximum ==
    /\ \A c \in Recorded : c.kind = "maximum" => MaximumForwardOk(c)
    /\ \A n \in 1..Len(ran) :
          ran[n].op.kind = "maximum" => MaximumBackwardOk(ran[n])
    /\ (phase = "done" /\ leaves = MaximumExample /\ Len(ran) = 2)
          => /\ ran[2].op.out.data = IntData(<<0, 0, 1, 3, 4, 5>>)
             /\ grads[1] = <<PosZero, FHalf, FOne, FHalf, FOne, PosZero>>
             /\ grads[2] = <<FOne, FHalf, PosZero, FHalf, PosZero, FOne>>

C6_Witness ==
    /\ phase = "done"
    /\ leaves = MaximumExample
    /\ Len(ran) = 2
    /\ ran[2].op.kind = "maximum"
    /\ grads[1][2] = FHalf
    /\ grads[2][1] = FOne

----------------------------------------------------------------------------
(* Properties of the tape, under Spec *)

\* C1: after n successful operations on a freshly traced leaf the tape
\* holds n closures, the i-th being the one the i-th operation appended;
\* backward runs each of them once, the last appended first and the first
\* appended last, and leaves the tape empty.
C1_TapeOrder ==
    /\ phase = "forward" =>
          /\ Len(tape) = Len(applied)
          /\ \A i \in 1..Len(tape) :
                /\ tape[i].kind = applied[i].kind
                /\ tape[i].out.id = applied[i].out
    /\ phase = "done" =>
          /\ tape = <<>>
          /\ Len(ran) = Len(applied)
          /\ \A k \in 1..Len(ran) :
                /\ ran[k].pos = Len(applied) + 1 - k
                /\ ran[k].op.kind = applied[ran[k].pos].kind
                /\ ran[k].op.out.id = applied[ran[k].pos].out

C1_Witness ==
    /\ phase = "done"
    /\ Len(applied) = 2
    /\ applied[1].kind = "stack"
    /\ applied[2].kind = "sum"
    /\ ran[1].op.kind = "sum"
    /\ ran[2].op.kind = "stack"

----------------------------------------------------------------------------
(* Properties of stack, under SpecStack *)

\* C11: stack of n >= 1 tensors of one shape and one set of strides gives a
\* tensor of shape (n,) ++ shape whose element at (i, idx) is input i's
\* element at idx, also when the inputs are broadcast views.
C11_StackForward ==
    \A c \in Recorded : c.kind = "stack" =>
        LET n == Len(c.inps)
        IN  /\ n >= 1
            /\ c.out.shape = <<n>> \o c.inps[1].shape
            /\ \A i \in 1..n : \A idx \in IdxSet(c.inps[i].shape) :
                  At(c.out, <<i - 1>> \o idx) = At(c.inps[i], idx)

C11_Witness ==
    \E c \in Recorded :
        /\ c.kind = "stack"
        /\ Len(c.inps) = 2
        /\ c.inps[1].strides = <<0, 1>>
        /\ c.inps[1].data # c.inps[2].data
        /\ c.out.shape = <<2, 2, 2>>

\* C12: stack yields no tensor for zero tensors, for tensors of different
\* shapes and for tensors of different strides: a stack that returned a
\* tensor had at least one input, all of one shape and one set of strides,
\* and a stack that stopped left neither a tensor nor a tape behind.
C12_StackRejects ==
    /\ \A c \in Recorded : c.kind = "stack" =>
          /\ Len(c.inps) >= 1
          /\ \A i \in 1..Len(c.inps) :
                /\ c.inps[i].shape = c.inps[1].shape
                /\ c.inps[i].strides = c.inps[1].strides
    /\ phase = "panicked" =>
          /\ err \in {"new_dim", "shape", "strides"}
          /\ cur = NoTensor
          /\ tape = <<>>
          /\ applied = <<>>

C12_Witness ==
    /\ phase = "panicked"
    /\ err = "strides"
    /\ leaves[1].shape = leaves[2].shape

\* C13: no try_* operation ever panics, try_stack on an empty list, on
\* mismatched shapes or on mismatched strides included.
C13_NeverPanics == phase # "panicked"

StackBackwardOk(e) ==
    LET inps == e.op.inps
        n == Len(inps)
        L == Len(inps[1].data)
        go == e.before[e.op.out.id]
    IN  /\ Len(go) = n * L
        /\ OnlyWrote(e, {inps[i].id : i \in 1..n})
        /\ \A i \in 1..n : \A p \in 1..L :
              e.after[inps[i].id][p]
                  = FAdd(e.before[inps[i].id][p], go[(i - 1) * L + p])

\* C14: stack backward cuts grad_out into n equal contiguous slabs in input
\* order and adds slab i into the gradient of input i and nowhere else; the
\* gradient of a stacked leaf after backward is its slab of the output's
\* gradient.
C14_StackBackward ==
    /\ \A k \in 1..Len(ran) :
          ran[k].op.kind = "stack" => StackBackwardOk(ran[k])
    /\ (phase = "done" /\ Len(ran) = 2 /\ ran[2].op.kind = "stack") =>
          LET inps == ran[2].op.inps
              L == Len(inps[1].data)
          IN  \A i \in 1..Len(inps) : \A p \in 1..L :
                  grads[inps[i].id][p]
                      = grads[ran[2].op.out.id][(i - 1) * L + p]

C14_Witness ==
    /\ phase = "done"
    /\ Len(ran) = 2
    /\ ran[2].op.kind = "stack"
    /\ ran[1].op.kind = "max"
    /\ Len(ran[2].op.inps) = 3
    /\ grads[1] # grads[2]
    /\ grads[2] # grads[3]

----------------------------------------------------------------------------
(* Reductions of several axes against chains of reductions, under          *)
(* SpecReduce                                                              *)

\* the forward kernel of a reduction kind
ReduceForward(kind, id, inp, Ax) ==
    CASE kind = "sum" -> SumKernel_forward(id, Reduced(inp.shape, Ax), inp, Ax)
      [] kind = "max" -> MaxReduceKernel_forward(id, Reduced(inp.shape, Ax), inp, Ax)
      [] kind = "min" -> MinReduceKernel_forward(id, Reduced(inp.shape, Ax), inp, Ax)

\* the gradient of inp after one reduction of the kind over Ax whose output
\* gradient is go
ReduceGradient(kind, inp, Ax, go) ==
    LET out == ReduceForward(kind, inp.id + 1, inp, Ax)
        g0 == (inp.id :> Zeros(Len(inp.data))) @@ (out.id :> go)
    IN  Call(Closure(kind, <<inp>>, out, Ax, NoOp), g0)[inp.id]

\* the axes of a shape that a reduction over Ax keeps, in order
RECURSIVE KeptAxes(_, _)
KeptAxes(r, Ax) ==
    IF r = 0 THEN <<>>
    ELSE IF r \in Ax THEN KeptAxes(r - 1, Ax)
         ELSE Append(KeptAxes(r - 1, Ax), r)

\* the axes of the leaf that two reductions in a row, over Ax1 and then over
\* Ax2 of what is left, reduce between them
BothAxes(r, Ax1, Ax2) == Ax1 \cup {KeptAxes(r, Ax1)[b] : b \in Ax2}

SameKind(ops) == \A i \in 1..Len(ops) : ops[i].kind = ops[1].kind

\* C15: a sum, max or min over several axes in one call gives the values of
\* a chain of reductions of the same kind over those axes, and after
\* backward from the scalar the same gradient of the input.
C15_AxesInOneCall ==
    /\ (phase = "forward" /\ Len(tape) = 2 /\ SameKind(tape)
          /\ tape[1].kind \in {"sum", "max", "min"}) =>
          LET leaf == tape[1].inps[1]
              Ax == BothAxes(Len(leaf.shape), tape[1].axes, tape[2].axes)
              one == ReduceForward(tape[1].kind, cur.id, leaf, Ax)
          IN  /\ cur.shape = one.shape
              /\ cur.data = one.data
    /\ (phase = "done" /\ Len(ran) >= 2
          /\ SameKind([i \in 1..Len(ran) |-> ran[i].op])
          /\ ran[1].op.kind \in {"sum", "max", "min"}) =>
          LET leaf == ran[Len(ran)].op.inps[1]
              all == 1..Len(leaf.shape)
          IN  /\ ran[1].op.out.data
                    = ReduceForward(ran[1].op.kind, 0, leaf, all).data
              /\ grads[leaf.id]
                    = ReduceGradient(ran[1].op.kind, leaf, all, Ones(1))

C15_Witness ==
    /\ phase = "done"
    /\ leaves[1] = AxesExample
    /\ Len(ran) = 2
    /\ ran[2].op.kind = "max"
    /\ ran[1].op.kind = "max"
    /\ ran[2].op.axes = {2}
    /\ grads[1] = IntData(<<0, 1, 1, 0, 1, 0, 0, 0>>)

----------------------------------------------------------------------------
(* Broadcast followed by sum, under SpecBroadcast *)

\* the number of logical copies a broadcast makes of each element
Copies(c) == Prod(c.out.shape) \div Prod(c.inps[1].shape)

\* C16: a broadcast along new axes of total size k summed over exactly
\* those axes gives k times the original values; a broadcast summed to a
\* scalar gives each original element the number of its logical copies as
\* its gradient; (3,) broadcast to (4,3,2) and summed gives 8 * sum(a) and
\* the gradient [8,8,8].
C16_BroadcastSum ==
    /\ (phase = "forward" /\ Len(tape) = 2 /\ tape[1].kind = "broadcast"
          /\ tape[2].kind = "sum" /\ tape[2].axes = tape[1].axes) =>
          LET leaf == tape[1].inps[1]
          IN  /\ cur.shape = leaf.shape
              /\ \A idx \in IdxSet(leaf.shape) :
                    FEq(At(cur, idx),
                        FMul(FromInt(Copies(tape[1])), At(leaf, idx)))
    /\ (phase = "done" /\ Len(ran) = 2 /\ ran[2].op.kind = "broadcast"
          /\ ran[1].op.kind = "sum") =>
          LET leaf == ran[2].op.inps[1]
              total == FSum(1..Len(leaf.data), leaf.data)
          IN  /\ FEq(ran[1].op.out.data[1],
                     FMul(FromInt(Copies(ran[2].op)), total))
              /\ grads[leaf.id]
                    = [p \in 1..Len(leaf.data) |-> FromInt(Copies(ran[2].op))]
    /\ (phase = "done" /\ Len(ran) = 2 /\ leaves[1] = BroadcastExample
          /\ ran[2].op.kind = "broadcast"
          /\ ran[2].op.out.shape = <<4, 3, 2>>) =>
          /\ ran[1].op.out.data = <<FromInt(48)>>
          /\ grads[1] = IntData(<<8, 8, 8>>)

C16_Witness ==
    /\ phase = "done"
    /\ leaves[1] = OnesExample
    /\ Len(ran) = 2
    /\ ran[2].op.kind = "broadcast"
    /\ ran[2].op.out.strides = <<0, 1, 0>>
    /\ ran[1].op.out.data = <<FromInt(24)>>
    /\ grads[1] = IntData(<<8, 8, 8>>)

----------------------------------------------------------------------------
(* Properties of permute, under SpecPermute *)

\* the permutation that takes the input's shape to the output's and the
\* input's strides to the output's at once
PermOf(c) ==
    {f \in Perms(Len(c.inps[1].shape)) :
        /\ c.out.shape = permuted(c.inps[1].shape, f)
        /\ c.out.strides = permuted(c.inps[1].strides, f)}

\* C17: permute forward returns a tensor with a fresh identity, the input's
\* buffer (no copy), the input's shape and strides rearranged by one and the
\* same permutation, and an empty tape; the input is left as it was.
C17_PermuteView ==
    \A c \in Recorded : c.kind = "permute" =>
        LET inp == c.inps[1]
        IN  /\ c.out.id # inp.id
            /\ c.out.id > inp.id
            /\ \A k \in 1..Len(leaves) : c.out.id # leaves[k].id
            /\ c.out.buf = inp.buf
            /\ c.out.data = inp.data
            /\ PermOf(c) # {}
            /\ \A f \in PermOf(c) :
                  /\ PermuteKernel_forward(c.out.id, inp, f).tensor = c.out
                  /\ PermuteKernel_forward(c.out.id, inp, f).tape = NoTape
                  /\ \A idx \in IdxSet(inp.shape) :
                        At(c.out, permuted(idx, f)) = At(inp, idx)
            /\ inp = leaves[1]

C17_Witness ==
    \E c \in Recorded :
        /\ c.kind = "permute"
        /\ c.inps[1] = SumExample
        /\ c.out.shape = <<3, 2>>
        /\ c.out.strides = <<1, 3>>
        /\ c.out.buf = 1

\* C18: permute backward adds to the gradient of the input, at every index,
\* the output's gradient at the permuted index, and leaves grad_out alone.
C18_PermuteBackward ==
    \A k \in 1..Len(ran) : ran[k].op.kind = "permute" =>
        LET e == ran[k]
            inp == e.op.inps[1]
            out == e.op.out
        IN  /\ OnlyWrote(e, {inp.id})
            /\ e.after[out.id] = e.before[out.id]
            /\ \A f \in PermOf(e.op) : \A idx \in IdxSet(inp.shape) :
                  GradAt(e.after, inp, idx)
                      = FAdd(GradAt(e.before, inp, idx),
                             GradAt(e.before, out, permuted(idx, f)))

C18_Witness ==
    /\ phase = "done"
    /\ leaves[1] = MaxExample
    /\ Len(ran) = 2
    /\ ran[2].op.kind = "permute"
    /\ ran[2].op.out.shape = <<3, 2>>
    /\ ran[1].op.kind = "max"
    /\ grads[1] = IntData(<<0, 0, 0, 1, 0, 0>>)
    /\ GradAt(ran[2].before, ran[2].op.out, <<0, 1>>) = FOne

----------------------------------------------------------------------------
(* Properties of Residual, under SpecResidual *)

\* the closure among cs whose output has the identity id
ClosureOf(cs, id) == CHOOSE c \in cs : c.out.id = id

OutIds(cs) == {c.out.id : c \in cs}

\* the closure of the addition a Residual call made, given its output's
\* identity, and the closure of its module
AddOf(id) == ClosureOf(Recorded, id)
ModuleOf(id) == ClosureOf(Recorded, AddOf(id).inps[1].id)

ResidualForwardOk(id) ==
    /\ id \in OutIds(Recorded)
    /\ AddOf(id).kind = "add"
    /\ AddOf(id).inps[1].id \in OutIds(Recorded)
    /\ LET add == AddOf(id)
           m == ModuleOf(id)
           fx == add.inps[1]
           x == add.inps[2]
       IN  /\ m.kind \in {"maximum", "minimum"}
           /\ m.out = fx
           /\ m.inps[1] = x
           /\ add.out.shape = x.shape
           /\ \A idx \in IdxSet(x.shape) :
                 At(add.out, idx) = FAdd(At(fx, idx), At(x, idx))

ResidualBackwardOk(id) ==
    LET add == AddOf(id)
        m == ModuleOf(id)
        fx == add.inps[1]
        x == add.inps[2]
        w == m.inps[2]
    IN  \A idx \in IdxSet(x.shape) :
            GradAt(grads, x, idx)
                = FAdd(GradAt(grads, add.out, idx),
                       FMul(BinaryOp_dfdx(m.bop, At(x, idx), At(w, idx)),
                            GradAt(grads, fx, idx)))

\* C19: Residual<F>::try_forward(x) returns F(x) + x on one tape that holds
\* the closures of F and the ones x carried; after backward the gradient of
\* x is what came back through F plus the gradient of the output; when F
\* fails the error is returned and nothing is added.
C19_Residual ==
    /\ \A i \in 1..Len(applied) : applied[i].kind = "residual" =>
          /\ phase \in {"forward", "done"} => ResidualForwardOk(applied[i].out)
          /\ phase = "forward" =>
                /\ {applied[j].out : j \in 1..Len(applied)}
                       \subseteq OutIds({tape[k] : k \in 1..Len(tape)})
                /\ AddOf(applied[i].out).inps[1].id
                       \in OutIds({tape[k] : k \in 1..Len(tape)})
                /\ Len(tape) = Len(applied) + 1
          /\ phase = "done" => ResidualBackwardOk(applied[i].out)
    /\ (phase = "failed" /\ err \in ModuleFailures) =>
          /\ \A i \in 1..Len(applied) : applied[i].kind # "residual"
          /\ cur = NoTensor
          /\ tape = <<>>

C19_Witness ==
    /\ phase = "done"
    /\ leaves = <<Dense(1, <<2>>, IntData(<<1, 0>>)),
                  Dense(2, <<2>>, IntData(<<1, 1>>))>>
    /\ Len(applied) = 2
    /\ applied[1].kind = "residual"
    /\ ModuleOf(applied[1].out).kind = "maximum"
    /\ AddOf(applied[1].out).out.data = IntData(<<2, 1>>)
    /\ grads[1] = <<Frac(3, 2), FOne>>

----------------------------------------------------------------------------
(* Failing operations, under Spec *)

\* the steps of the operations that can return Err
FailurePoints ==
    ReduceFailures \cup PoolFailures \cup BinaryFailures \cup StackFailures

\* C20: when a step of a try_* operation fails the error is all that comes
\* back: no closure is appended, no tensor and no tape are returned, and no
\* gradient map, partial or not, can be obtained afterwards.
C20_FailureLeavesNothing ==
    /\ [](phase = "failed" =>
            /\ err \in FailurePoints
            /\ cur = NoTensor
            /\ tape = <<>>
            /\ grads = NoGrads
            /\ ran = <<>>)
    /\ [][phase' = "failed" => applied' = applied]_vars
    /\ [][phase = "failed" => UNCHANGED vars]_vars

C20_Witness ==
    /\ phase = "failed"
    /\ err = "alloc_out"
    /\ Len(applied) = 1
    /\ applied[1].kind = "max_pool"

----------------------------------------------------------------------------
(* The extents of Pool2DOp::new and the windows they place *)

\* an extent n for the padded length m: at least one window, and the last
\* window ends inside the padded input
FitsIn(n, m, K, S) == n >= 1 /\ (n - 1) * S + K <= m

\* C28: for S >= 1 and K <= H + 2P, K <= W + 2P, Pool2DOp::new returns
\* extents of at least 1 whose last window ends inside the padded input,
\* (h_out - 1) * S + K <= H + 2P and (w_out - 1) * S + K <= W + 2P; when K
\* exceeds a padded extent the subtraction goes below zero: the call panics,
\* or returns a wrapped number that is no extent of that input.
C28_PoolOpBounds ==
    ret.fn = "Pool2DOp::new" =>
        LET K == ret.args[1]
            S == ret.args[2]
            P == ret.args[3]
            H == ret.args[4][3]
            W == ret.args[4][4]
            op == ret.value
        IN  /\ K <= H + 2 * P => FitsIn(op.h_out, H + 2 * P, K, S)
            /\ K <= W + 2 * P => FitsIn(op.w_out, W + 2 * P, K, S)
            /\ K > H + 2 * P => ~FitsIn(op.h_out, H + 2 * P, K, S)
            /\ K > W + 2 * P => ~FitsIn(op.w_out, W + 2 * P, K, S)

\* a kernel larger than the height wrapped h_out, and fitted the width once
C28_Witness ==
    /\ ret.fn = "Pool2DOp::new"
    /\ ret.args[1] > ret.args[4][3] + 2 * ret.args[3]
    /\ ret.args[1] <= ret.args[4][4] + 2 * ret.args[3]
    /\ ret.value.h_out > ret.args[4][3] + 2 * ret.args[3]
    /\ ret.args[1] = 3
    /\ ret.value.w_out = 1

----------------------------------------------------------------------------
(* The allocation interface *)

C23_CopyOnWrite ==
    /\ [](ret.fn = "copy_from" => leaves[ret.k].data = ret.src)
    /\ [][ret'.fn = "copy_from" =>
              LET k == ret'.k
              IN  /\ DOMAIN leaves' = DOMAIN leaves
                  /\ leaves'[k].data = ret'.src
                  /\ Holders(leaves', leaves'[k].buf) = {k}
                  /\ \A j \in DOMAIN leaves :
                        /\ leaves'[j].id = leaves[j].id
                        /\ leaves'[j].shape = leaves[j].shape
                        /\ leaves'[j].strides = leaves[j].strides
                        /\ j # k => leaves'[j] = leaves[j]]_vars

\* a clone and its original read different contents after copy_from on one
C23_Witness ==
    /\ ret.fn = "copy_from"
    /\ Len(leaves) = 2
    /\ leaves[1].id = leaves[2].id
    /\ leaves[1].buf # leaves[2].buf
    /\ leaves[ret.k].data = <<FOne, FOne>>
    /\ leaves[3 - ret.k].data = <<PosZero, PosZero>>

\* C24: every tensor a constructor or a kernel produces (zeros, ones,
\* sample, from-vector, stack output, permute output) gets an identity
\* above the identity of every tensor created before it; every handle holds
\* an identity stamped at a creation; tensor_to_array stamps none.
C24_FreshIdentities ==
    /\ [](/\ \A i, j \in DOMAIN applied :
                i < j => applied[i].out < applied[j].out
          /\ \A i \in DOMAIN applied : applied[i].out < nextId
          /\ \A k \in DOMAIN leaves :
                \E i \in DOMAIN applied : applied[i].out = leaves[k].id)
    /\ [][(Len(leaves') > Len(leaves) /\ ret'.fn # "clone") =>
              /\ applied' = Append(applied,
                     [kind |-> "built", out |-> leaves'[Len(leaves')].id])
              /\ \A j \in DOMAIN leaves :
                    leaves[j].id < leaves'[Len(leaves')].id]_vars
    /\ [][ret'.fn = "tensor_to_array" =>
              /\ nextId' = nextId
              /\ applied' = applied
              /\ leaves' = leaves
              /\ ret'.id = leaves[ret'.k].id]_vars

\* a permuted view of the first tensor, converted to an array
C24_Witness ==
    /\ ret.fn = "tensor_to_array"
    /\ ret.k = 2
    /\ Len(leaves) = 2
    /\ leaves[2].id = 2
    /\ leaves[2].buf = leaves[1].buf
    /\ leaves[2].strides = <<1, 2>>
    /\ ret.array = <<FOne, PosZero>>
    /\ nextId = 3

----------------------------------------------------------------------------
(* The parameter count *)

\* the tensors of a module, whatever wraps them
RECURSIVE FieldsOf(_)
FieldsOf(m) == IF m.kind = "Residual" THEN FieldsOf(m.inner) ELSE m.fields

\* C22: num_trainable_params is the sum of the element counts of exactly
\* the visited tensors whose options have do_gradient_update = true, the
\* others adding 0; a Residual<F> shows the visitor the tensors of F, each
\* under F's path behind "0", and counts what F counts.
C22_NumParams ==
    ret.fn = "num_trainable_params" =>
        LET m == ret.args
            fs == FieldsOf(m)
            counted == {i \in 1..Len(fs) : fs[i].opts.do_gradient_update}
        IN  /\ ret.value = IntSum(counted, [i \in counted |-> Prod(fs[i].t.shape)])
            /\ Len(ret.visits) = Len(fs)
            /\ \A i \in 1..Len(fs) :
                  /\ ret.visits[i].t = fs[i].t
                  /\ ret.visits[i].opts = fs[i].opts
            /\ m.kind = "Residual" =>
                  LET inner == num_trainable_params(m.inner)
                  IN  /\ ret.value = inner.count
                      /\ \A i \in 1..Len(fs) :
                            ret.visits[i].path = <<"0">> \o inner.visits[i].path

\* a Residual around a layer with a (2, 3) weight that trains and a bias
\* that does not
C22_Witness ==
    /\ ret.fn = "num_trainable_params"
    /\ ret.args =
          Residual(Layer(<<Field("weight", TRUE, <<2, 3>>),
                           Field("bias", FALSE, <<2>>)>>))
    /\ ret.value = 6
    /\ ret.visits[2].path = <<"0", "bias">>

----------------------------------------------------------------------------
(* Gradient slots *)

\* the identities whose slots a closure borrows: its inputs and its output
SlotsOf(c) == {c.out.id} \cup {c.inps[i].id : i \in DOMAIN c.inps}

\* the tensors a closure captured
CapturedBy(c) == {c.out} \cup {c.inps[i] : i \in DOMAIN c.inps}

\* C25: whenever a closure is on the tape, the gradient map holds a slot,
\* as long as the tensor's buffer, for every identity the closure reads or
\* writes; this holds after every operation, after the merges of stack,
\* and in the map each closure is handed while backward runs.
C25_SlotsAllocated ==
    /\ \A i \in DOMAIN tape :
          /\ SlotsOf(tape[i]) \subseteq DOMAIN grads
          /\ \A t \in CapturedBy(tape[i]) : Len(grads[t.id]) = Len(t.data)
    /\ \A i \in DOMAIN ran :
          /\ SlotsOf(ran[i].op) \subseteq DOMAIN ran[i].before
          /\ DOMAIN ran[i].after = DOMAIN ran[i].before

\* a stack of the output of an earlier operation and a fresh leaf: four
\* slots for the two closures on the merged tape
C25_Witness ==
    /\ phase = "forward"
    /\ Len(tape) = 2
    /\ tape[2].kind = "stack"
    /\ Len(tape[2].inps) = 2
    /\ tape[2].inps[1].id = 2
    /\ tape[2].inps[2].id = tape[1].out.id
    /\ DOMAIN grads = {1, 2, 3, 4}

----------------------------------------------------------------------------
(* The storage of a stacked tensor *)

\* the largest 0-based offset a shape and strides address
MaxOffset(shape, strides) == Dot([d \in 1..Len(shape) |-> shape[d] - 1], strides)

\* C26: the tensor stack returns has a buffer n times as long as the
\* physical buffer of one input, a leading stride of that physical length
\* and the inputs' strides after it, and every offset its shape and strides
\* address lies inside the buffer, for contiguous and for broadcast inputs.
C26_StackStorage ==
    \A c \in Recorded : c.kind = "stack" =>
        LET n == Len(c.inps)
            physical == Len(c.inps[1].data)
            out == c.out
        IN  /\ \A i \in 1..n : Len(c.inps[i].data) = physical
            /\ Len(out.data) = n * physical
            /\ out.strides[1] = physical
            /\ Tail(out.strides) = c.inps[1].strides
            /\ MaxOffset(out.shape, out.strides) < Len(out.data)
            /\ \A idx \in IdxSet(out.shape) :
                  Offset(idx, out.strides) \in 0..(Len(out.data) - 1)

\* three broadcast views of two elements each, stacked into six
C26_Witness ==
    \E c \in Recorded :
        /\ c.kind = "stack"
        /\ Len(c.inps) = 3
        /\ c.inps[1].strides = <<0, 1>>
        /\ c.out.shape = <<3, 2, 2>>
        /\ c.out.strides = <<2, 0, 1>>
        /\ Len(c.out.data) = 6
        /\ MaxOffset(c.out.shape, c.out.strides) = 5

----------------------------------------------------------------------------
(* The order backward runs merged tapes in *)

\* the identities whose slots a closure adds into: its inputs
AddsInto(c) == {c.inps[k].id : k \in DOMAIN c.inps}

\* C27: on every tape built by operations and merges, Residual on an input
\* that already carries recorded operations included, backward runs every
\* closure that adds into a tensor's gradient slot before the closure that
\* reads that slot as its output gradient: no closure adds into a slot
\* after the slot was read.
C27_AddsBeforeReads ==
    \A i, j \in DOMAIN ran :
        i < j => ran[i].op.out.id \notin AddsInto(ran[j].op)

====
